---------------------------- MODULE Spec2Model ----------------------------
(***************************************************************************)
(* Sparkling: the recursive-descent parser (src/src/parser.c) as a state   *)
(* machine.  A parser object is created once and then used to parse        *)
(* a growing source text again and again (the way the interactive          *)
(* interpreter feeds it); one Parse step is one whole call of              *)
(* spn_parser_parse.                                                       *)
(*                                                                         *)
(* The source text is a sequence of lexemes.  A lexeme is the kind of the  *)
(* token it scans to ("IDENT", "PLUS", ...), "NL" for a line break between *)
(* tokens, or "LEXERR" for a malformed lexeme (an unterminated string, a   *)
(* bad escape, ...).  The payload of the identifier or string at position  *)
(* i of the source is the heap object i.                                   *)
(*                                                                         *)
(* The parser object p carries, besides the fields of struct SpnParser,    *)
(* the observations the properties are about: the AST nodes allocated and  *)
(* freed, how often each payload was released, the diagnostics written.    *)
(***************************************************************************)
EXTENDS Integers, Sequences, FiniteSets, TLC

VARIABLES src, p, tree, phase, alphabet, limit

vars == <<src, p, tree, phase, alphabet, limit>>

-----------------------------------------------------------------------------
(* Values *)

\* the null pointer to an AST node
NULL == [node |-> "NULL"]

\* a value of type SpnValue: t is its type tag, v the object or number
NoVal == [t |-> "NIL", v |-> 0]

\* the token the parser object holds before anything was scanned
NoTok == [tok |-> "NONE", val |-> NoVal]

\* A function of the parser is a sequence of steps, each working on what the
\* steps before it returned.  Here
\*     [x \in Any |-> rest][step]
\* says: x is what step returned, and rest is what follows it.  The value
\* of step is computed once and rest is evaluated with x naming it; the
\* steps of a function are listed after its text, the last one first.

\* the result of a production: the parser object after it, and its tree
R(q, ast) == [p |-> q, ast |-> ast]


-----------------------------------------------------------------------------
(* The AST (ast.c: spn_ast_new, spn_ast_free) *)

RECURSIVE NodeCount(_)
NodeCount(t) ==
    IF t = NULL THEN 0 ELSE 1 + NodeCount(t.left) + NodeCount(t.right)

\* the payload objects a tree owns: names, and string values
RECURSIVE Payloads(_)
Payloads(t) ==
    IF t = NULL THEN <<>>
    ELSE (IF t.name # 0 THEN <<t.name>> ELSE <<>>)
         \o (IF t.value.t = "STRING" THEN <<t.value.v>> ELSE <<>>)
         \o Payloads(t.left) \o Payloads(t.right)

RECURSIVE ReleaseAll(_, _)
ReleaseAll(rel, ids) ==
    IF ids = <<>> THEN rel
    ELSE ReleaseAll([rel EXCEPT ![Head(ids)] = @ + 1], Tail(ids))

spn_ast_new(q, node) ==
    R([q EXCEPT !.nalloc = @ + 1],
      [node |-> node, line |-> q.lineno, left |-> NULL, right |-> NULL,
       name |-> 0, value |-> NoVal])

spn_ast_free(q, t) ==
    [q EXCEPT !.nfree = @ + NodeCount(t),
              !.rel = ReleaseAll(@, Payloads(t))]

spn_value_release(q) ==
    IF q.curtok.val.t = "STRING"
    THEN [q EXCEPT !.rel[q.curtok.val.v] = @ + 1]
    ELSE q

spn_object_release(q, name) ==
    IF name # 0 THEN [q EXCEPT !.rel[name] = @ + 1] ELSE q

-----------------------------------------------------------------------------
(* Diagnostics *)

\* a report that keeps the message already stored by an earlier report of
\* the call
spn_parser_error_first(q, msg) ==
    [q EXCEPT !.error = 1,
              !.ndiag = @ + 1,
              !.sink = Append(@, [line |-> q.lineno, msg |-> msg, nl |-> TRUE]),
              !.errmsg = IF q.error # 0 THEN @
                         ELSE [line |-> q.lineno, msg |-> msg, nl |-> FALSE]]

spn_parser_error(q, msg) ==
    [q EXCEPT !.error = 1,
              !.ndiag = @ + 1,
              !.sink = Append(@, [line |-> q.lineno, msg |-> msg, nl |-> TRUE]),
              !.errmsg = [line |-> q.lineno, msg |-> msg, nl |-> FALSE]]

-----------------------------------------------------------------------------
(* The lexer (lex.c: spn_lex, spn_accept, spn_accept_multi) *)

\* the payload the lexer attaches to the token scanned at position i
TokVal(kind, i) ==
    CASE kind \in {"IDENT", "STR"} -> [t |-> "STRING", v |-> i]
      [] kind = "INT"              -> [t |-> "INT", v |-> i]
      [] kind = "FLOAT"            -> [t |-> "FLOAT", v |-> i]
      [] OTHER                     -> NoVal

\* skip the line breaks before the next lexeme, counting lines
RECURSIVE skip_space(_)
skip_space(q) ==
    IF q.pos <= Len(q.src) /\ q.src[q.pos] = "NL"
    THEN skip_space([q EXCEPT !.pos = @ + 1, !.lineno = @ + 1])
    ELSE q

\* advance: ret = 1 with the next token, kind and payload, in curtok, or
\* ret = 0 at the end of the input (eof set) and on a malformed lexeme (an
\* error reported).  What an advance that produces no token does to curtok is
\* not fixed by the lexer's contract, so it is a choice of the build, made in
\* spn_parser_new: either curtok is left as it was, kind and payload, or the
\* payload is dropped from it and, at the end of the input, its kind is set
\* to the end-of-input token.
spn_lex(q0) ==
    [q \in Any |->
    LET nothing == IF q.eoftok THEN [q EXCEPT !.curtok.val = NoVal] ELSE q IN
    IF q.pos > Len(q.src)
    THEN [nothing EXCEPT !.eof = 1, !.ret = 0,
                         !.curtok.tok = IF q.eoftok THEN "EOF" ELSE @]
    ELSE IF q.src[q.pos] = "LEXERR"
    THEN [spn_parser_error(nothing, "lexical error") EXCEPT !.ret = 0]
    ELSE [q EXCEPT !.curtok = [tok |-> q.src[q.pos],
                               val |-> TokVal(q.src[q.pos], q.pos)],
                   !.pos = @ + 1, !.ret = 1]
    ][skip_space(q0)]

spn_accept(q, tok) ==
    IF q.curtok.tok = tok
    THEN [spn_lex(q) EXCEPT !.ret = 1]
    ELSE [q EXCEPT !.ret = 0]

\* the index (from 0) of the first entry of toks that is the current token
RECURSIVE IndexOf(_, _, _)
IndexOf(toks, tok, i) ==
    IF i > Len(toks) THEN -1
    ELSE IF toks[i] = tok THEN i - 1
    ELSE IndexOf(toks, tok, i + 1)

spn_accept_multi(q, toks) ==
    LET idx == IndexOf(toks, q.curtok.tok, 1) IN
    IF idx >= 0
    THEN [spn_lex(q) EXCEPT !.ret = idx]
    ELSE [q EXCEPT !.ret = -1]


-----------------------------------------------------------------------------
(* The parser: operator tables *)

AssignToks == <<"ASSIGN", "PLUSEQ", "MINUSEQ", "MULEQ", "DIVEQ", "MODEQ",
                "ANDEQ", "OREQ", "XOREQ", "SHLEQ", "SHREQ", "DOTDOTEQ">>

AssignNodes == <<"ASSIGN", "ASSIGN_ADD", "ASSIGN_SUB", "ASSIGN_MUL",
                 "ASSIGN_DIV", "ASSIGN_MOD", "ASSIGN_AND", "ASSIGN_OR",
                 "ASSIGN_XOR", "ASSIGN_SHL", "ASSIGN_SHR", "ASSIGN_CONCAT">>

ComparisonToks == <<"EQUAL", "NOTEQ", "LESS", "GREATER", "LEQ", "GEQ">>

ComparisonNodes == <<"EQUAL", "NOTEQ", "LESS", "GREATER", "LEQ", "GEQ">>

PrefixToks == <<"INCR", "DECR", "PLUS", "MINUS", "LOGNOT", "BITNOT",
                "SIZEOF", "TYPEOF", "HASH">>

PrefixNodes == <<"PREINCRMT", "PREDECRMT", "UNPLUS", "UNMINUS", "LOGNOT",
                 "BITNOT", "SIZEOF", "TYPEOF", "NTHARG">>

PostfixToks == <<"INCR", "DECR", "LBRACKET", "LPAREN", "DOT", "ARROW">>

\* a table in which -> makes a subscript
PostfixNodes_arrow ==
    <<"POSTINCRMT", "POSTDECRMT", "ARRSUB", "FUNCCALL", "MEMBEROF", "ARRSUB">>

PostfixNodes == <<"POSTINCRMT", "POSTDECRMT", "ARRSUB", "FUNCCALL",
                  "MEMBEROF", "MEMBEROF">>

\* the lexer produces no further token: the end of the input or a malformed
\* lexeme is next
Stuck(q) ==
    [r \in Any |->
    r.pos > Len(r.src) \/ r.src[r.pos] = "LEXERR"
    ][skip_space(q)]

\* Once the lexer is stuck no advance produces a token, and what the parser
\* branches on (the kind of the current token, the error flag, the eof flag)
\* changes at most a few times more.  A production (a statement, an
\* expression, a prefix expression, a step of the postfix loop) that is
\* started a second time with all of these as they were at an earlier start
\* is started again and again: the parse does not end.  started holds the
\* productions started since the lexer is stuck, each with what the parser
\* branches on.
Mark(q, prod) == <<prod, q.curtok.tok, q.error, q.eof>>

Start(q, prod) ==
    IF Stuck(q) THEN [q EXCEPT !.started = @ \cup {Mark(q, prod)}] ELSE q

Again(q, prod) == Stuck(q) /\ Mark(q, prod) \in q.started

Hang(q) == R([q EXCEPT !.hang = TRUE], NULL)

-----------------------------------------------------------------------------
(* The parser: expressions *)

RECURSIVE call(_, _)
RECURSIVE parse_stmt(_, _)
RECURSIVE parse_stmt_list(_)
RECURSIVE stmt_list_loop(_, _)
RECURSIVE parse_function(_, _)
RECURSIVE parse_block(_)
RECURSIVE parse_expr(_)
RECURSIVE parse_assignment(_)
RECURSIVE parse_concat(_)
RECURSIVE parse_condexpr(_)
RECURSIVE parse_logical_or(_)
RECURSIVE parse_logical_and(_)
RECURSIVE parse_comparison(_)
RECURSIVE parse_bitwise_or(_)
RECURSIVE parse_bitwise_xor(_)
RECURSIVE parse_bitwise_and(_)
RECURSIVE parse_shift(_)
RECURSIVE parse_additive(_)
RECURSIVE parse_multiplicative(_)
RECURSIVE parse_prefix(_)
RECURSIVE parse_postfix(_)
RECURSIVE postfix_loop(_, _)
RECURSIVE parse_term(_)
RECURSIVE parse_decl_args(_)
RECURSIVE decl_args_loop(_, _)
RECURSIVE parse_call_args(_)
RECURSIVE call_args_loop(_, _)
RECURSIVE parse_binexpr_rightassoc(_, _, _, _)
RECURSIVE parse_binexpr_leftassoc(_, _, _, _)
RECURSIVE leftassoc_loop(_, _, _, _, _)
RECURSIVE parse_if(_)
RECURSIVE parse_while(_)
RECURSIVE parse_do(_)
RECURSIVE parse_for(_)
RECURSIVE parse_foreach(_)
RECURSIVE parse_return(_)
RECURSIVE parse_vardecl(_)
RECURSIVE vardecl_loop(_, _)
RECURSIVE parse_expr_stmt(_)

\* a call through the function pointer subexpr
call(subexpr, q) ==
    CASE subexpr = "parse_concat"         -> parse_concat(q)
      [] subexpr = "parse_condexpr"       -> parse_condexpr(q)
      [] subexpr = "parse_logical_and"    -> parse_logical_and(q)
      [] subexpr = "parse_comparison"     -> parse_comparison(q)
      [] subexpr = "parse_bitwise_or"     -> parse_bitwise_or(q)
      [] subexpr = "parse_bitwise_xor"    -> parse_bitwise_xor(q)
      [] subexpr = "parse_bitwise_and"    -> parse_bitwise_and(q)
      [] subexpr = "parse_shift"          -> parse_shift(q)
      [] subexpr = "parse_additive"       -> parse_additive(q)
      [] subexpr = "parse_multiplicative" -> parse_multiplicative(q)
      [] subexpr = "parse_prefix"         -> parse_prefix(q)

parse_expr(q) ==
    IF Again(q, "expr") THEN Hang(q)
    ELSE parse_assignment(Start(q, "expr"))

\* assignments grouped from the left
parse_assignment_left(q) ==
    parse_binexpr_leftassoc(q, AssignToks, AssignNodes, "parse_concat")

parse_assignment(q) ==
    parse_binexpr_rightassoc(q, AssignToks, AssignNodes, "parse_concat")

parse_concat(q) ==
    parse_binexpr_leftassoc(q, <<"DOTDOT">>, <<"CONCAT">>, "parse_condexpr")

\* a conditional expression whose false branch is a full expression
parse_condexpr_full(q) ==
    [c \in Any |->
    IF c.ast = NULL THEN R(c.p, NULL)
    ELSE
    [q1 \in Any |->
    IF q1.ret = 0 THEN R(q1, c.ast)
    ELSE
    [t \in Any |->
    IF t.ast = NULL THEN R(spn_ast_free(t.p, c.ast), NULL)
    ELSE
    [q2 \in Any |->
    IF q2.ret = 0
    THEN R(spn_ast_free(spn_ast_free(spn_value_release(
               spn_parser_error(q2, "expected `:' in conditional expression")),
             c.ast), t.ast), NULL)
    ELSE
    [f \in Any |->
    IF f.ast = NULL
    THEN R(spn_ast_free(spn_ast_free(f.p, c.ast), t.ast), NULL)
    ELSE
    [b \in Any |->
    LET branches == [b.ast EXCEPT !.left = t.ast, !.right = f.ast] IN
    [n \in Any |->
    R(n.p, [n.ast EXCEPT !.left = c.ast, !.right = branches])
    ][spn_ast_new(b.p, "CONDEXPR")]
    ][spn_ast_new(f.p, "BRANCHES")]
    ][parse_expr(q2)]
    ][spn_accept(t.p, "COLON")]
    ][parse_expr(q1)]
    ][spn_accept(c.p, "QMARK")]
    ][parse_logical_or(q)]

parse_condexpr(q) ==
    [c \in Any |->
    IF c.ast = NULL THEN R(c.p, NULL)
    ELSE
    [q1 \in Any |->
    IF q1.ret = 0 THEN R(q1, c.ast)
    ELSE
    [t \in Any |->
    IF t.ast = NULL THEN R(spn_ast_free(t.p, c.ast), NULL)
    ELSE
    [q2 \in Any |->
    IF q2.ret = 0
    THEN R(spn_ast_free(spn_ast_free(spn_value_release(
               spn_parser_error(q2, "expected `:' in conditional expression")),
             c.ast), t.ast), NULL)
    ELSE
    [f \in Any |->
    IF f.ast = NULL
    THEN R(spn_ast_free(spn_ast_free(f.p, c.ast), t.ast), NULL)
    ELSE
    [b \in Any |->
    LET branches == [b.ast EXCEPT !.left = t.ast, !.right = f.ast] IN
    [n \in Any |->
    R(n.p, [n.ast EXCEPT !.left = c.ast, !.right = branches])
    ][spn_ast_new(b.p, "CONDEXPR")]
    ][spn_ast_new(f.p, "BRANCHES")]
    ][parse_condexpr(q2)]
    ][spn_accept(t.p, "COLON")]
    ][parse_expr(q1)]
    ][spn_accept(c.p, "QMARK")]
    ][parse_logical_or(q)]

parse_logical_or(q) ==
    parse_binexpr_leftassoc(q, <<"LOGOR">>, <<"LOGOR">>, "parse_logical_and")

parse_logical_and(q) ==
    parse_binexpr_leftassoc(q, <<"LOGAND">>, <<"LOGAND">>, "parse_comparison")

parse_comparison(q) ==
    parse_binexpr_leftassoc(q, ComparisonToks, ComparisonNodes, "parse_bitwise_or")

parse_bitwise_or(q) ==
    parse_binexpr_leftassoc(q, <<"BITOR">>, <<"BITOR">>, "parse_bitwise_xor")

parse_bitwise_xor(q) ==
    parse_binexpr_leftassoc(q, <<"XOR">>, <<"BITXOR">>, "parse_bitwise_and")

parse_bitwise_and(q) ==
    parse_binexpr_leftassoc(q, <<"BITAND">>, <<"BITAND">>, "parse_shift")

parse_shift(q) ==
    parse_binexpr_leftassoc(q, <<"SHL", "SHR">>, <<"SHL", "SHR">>, "parse_additive")

\* a ladder in which the additive level is served by the prefix level
parse_additive_skip(q) ==
    parse_binexpr_leftassoc(q, <<"PLUS", "MINUS">>, <<"ADD", "SUB">>,
                            "parse_prefix")

parse_additive(q) ==
    parse_binexpr_leftassoc(q, <<"PLUS", "MINUS">>, <<"ADD", "SUB">>,
                            "parse_multiplicative")

parse_multiplicative(q) ==
    parse_binexpr_leftassoc(q, <<"MUL", "DIV", "MOD">>, <<"MUL", "DIV", "MOD">>,
                            "parse_prefix")

parse_prefix(q0) ==
    IF Again(q0, "prefix") THEN Hang(q0)
    ELSE
    [q \in Any |->
    IF q.ret < 0 THEN parse_postfix(q)
    ELSE
    [o \in Any |->
    IF o.ast = NULL THEN R(o.p, NULL)
    ELSE
    [n \in Any |->
    R(n.p, [n.ast EXCEPT !.left = o.ast])
    ][spn_ast_new(o.p, PrefixNodes[q.ret + 1])]
    ][parse_prefix(q)]
    ][spn_accept_multi(Start(q0, "prefix"), PrefixToks)]

parse_postfix(q) ==
    [t \in Any |->
    IF t.ast = NULL THEN R(t.p, NULL) ELSE postfix_loop(t.p, t.ast)
    ][parse_term(q)]

\* the while loop of parse_postfix, entered with the expression built so far
postfix_loop(q0, ast) ==
    [q \in Any |->
    IF q.ret < 0 THEN R(q, ast)
    ELSE IF Again(q, "postfix") THEN Hang(q)
    ELSE
    [n \in Any |->
    LET tmp == n.ast IN
    CASE tmp.node \in {"POSTINCRMT", "POSTDECRMT"} ->
           postfix_loop(n.p, [tmp EXCEPT !.left = ast])
      [] tmp.node = "ARRSUB" ->
           [e \in Any |->
           IF e.ast = NULL
           THEN R(spn_ast_free(spn_ast_free(e.p, ast), tmp), NULL)
           ELSE
           LET tmp2 == [tmp EXCEPT !.left = ast, !.right = e.ast] IN
           [q2 \in Any |->
           IF q2.ret = 0
           THEN R(spn_ast_free(spn_value_release(spn_parser_error(q2,
                      "expected `]' after expression in array subscript")),
                    tmp2), NULL)
           ELSE postfix_loop(q2, tmp2)
           ][spn_accept(e.p, "RBRACKET")]
           ][parse_expr(n.p)]
      [] tmp.node = "MEMBEROF" ->
           IF n.p.curtok.tok # "IDENT"
           THEN R(spn_ast_free(spn_ast_free(spn_parser_error(n.p,
                      "expected identifier after . or -> operator"),
                    ast), tmp), NULL)
           ELSE
           [i \in Any |->
           IF i.ast = NULL
           THEN R(spn_ast_free(spn_ast_free(i.p, ast), tmp), NULL)
           ELSE postfix_loop(i.p, [tmp EXCEPT !.left = ast, !.right = i.ast])
           ][parse_term(n.p)]
      [] tmp.node = "FUNCCALL" ->
           LET tmp1 == [tmp EXCEPT !.left = ast]
               hasargs == n.p.curtok.tok # "RPAREN"
           IN
           [a \in Any |->
           IF hasargs /\ a.ast = NULL
           THEN R(spn_ast_free(a.p, tmp1), NULL)
           ELSE
           LET tmp2 == IF hasargs THEN [tmp1 EXCEPT !.right = a.ast] ELSE tmp1 IN
           [q2 \in Any |->
           IF q2.ret = 0
           THEN R(spn_ast_free(spn_value_release(spn_parser_error(q2,
                      "expected `)' after expression in function call")),
                    tmp2), NULL)
           ELSE postfix_loop(q2, tmp2)
           ][spn_accept(IF hasargs THEN a.p ELSE n.p, "RPAREN")]
           ][IF hasargs THEN parse_call_args(n.p) ELSE R(n.p, NULL)]
    ][spn_ast_new(Start(q, "postfix"), PostfixNodes[q.ret + 1])]
    ][spn_accept_multi(q0, PostfixToks)]

\* the tail every leaf case of parse_term shares: skip the token, and give
\* the node up if the advance reported an error
term_leaf(q, ast) ==
    [q1 \in Any |->
    IF q1.error # 0 THEN R(spn_ast_free(q1, ast), NULL) ELSE R(q1, ast)
    ][spn_lex(q)]

parse_term(q) ==
    CASE q.curtok.tok = "LPAREN" ->
           [e \in Any |->
           IF e.ast = NULL THEN R(e.p, NULL)
           ELSE
           [q1 \in Any |->
           IF q1.ret = 0
           THEN R(spn_ast_free(spn_value_release(spn_parser_error(q1,
                      "expected `)' after parenthesized expression")),
                    e.ast), NULL)
           ELSE R(q1, e.ast)
           ][spn_accept(e.p, "RPAREN")]
           ][parse_expr(spn_lex(q))]
      [] q.curtok.tok = "FUNCTION" -> parse_function(q, 0)
      [] q.curtok.tok = "IDENT" ->
           [n \in Any |->
           term_leaf(n.p, [n.ast EXCEPT !.name = q.curtok.val.v])
           ][spn_ast_new(q, "IDENT")]
      [] q.curtok.tok = "TRUE" ->
           [n \in Any |->
           term_leaf(n.p, [n.ast EXCEPT !.value = [t |-> "BOOL", v |-> 1]])
           ][spn_ast_new(q, "LITERAL")]
      [] q.curtok.tok = "FALSE" ->
           [n \in Any |->
           term_leaf(n.p, [n.ast EXCEPT !.value = [t |-> "BOOL", v |-> 0]])
           ][spn_ast_new(q, "LITERAL")]
      [] q.curtok.tok = "NIL" ->
           [n \in Any |->
           term_leaf(n.p, [n.ast EXCEPT !.value = [t |-> "NIL", v |-> 0]])
           ][spn_ast_new(q, "LITERAL")]
      [] q.curtok.tok = "NAN" ->
           [n \in Any |->
           term_leaf(n.p, [n.ast EXCEPT !.value = [t |-> "FLOAT", v |-> 0]])
           ][spn_ast_new(q, "LITERAL")]
      [] q.curtok.tok \in {"INT", "FLOAT", "STR"} ->
           [n \in Any |->
           term_leaf(n.p, [n.ast EXCEPT !.value = q.curtok.val])
           ][spn_ast_new(q, "LITERAL")]
      [] OTHER ->
           R(spn_value_release(spn_parser_error(q, "unexpected token")), NULL)

\* the list nodes linked through left, head first
RECURSIVE ChainLeft(_)
ChainLeft(nodes) ==
    IF nodes = <<>> THEN NULL
    ELSE [nodes[1] EXCEPT !.left = ChainLeft(Tail(nodes))]

\* the list nodes linked through right, head first
RECURSIVE ChainRight(_)
ChainRight(nodes) ==
    IF nodes = <<>> THEN NULL
    ELSE [nodes[1] EXCEPT !.right = ChainRight(Tail(nodes))]

parse_decl_args(q0) ==
    LET name == q0.curtok.val.v IN
    [q \in Any |->
    IF q.ret = 0
    THEN R(spn_value_release(spn_parser_error(q,
               "expected identifier in function argument list")), NULL)
    ELSE
    [n \in Any |->
    decl_args_loop(n.p, <<[n.ast EXCEPT !.name = name]>>)
    ][spn_ast_new(q, "DECLARGS")]
    ][spn_accept(q0, "IDENT")]

\* a loop that links the list through right
decl_args_loop_right(q0, nodes) ==
    [q \in Any |->
    IF q.ret = 0 THEN R(q, ChainRight(nodes))
    ELSE
    LET name == q.curtok.val.v IN
    [q1 \in Any |->
    IF q1.ret = 0
    THEN R(spn_ast_free(spn_value_release(spn_parser_error(q1,
               "expected identifier in function argument list")),
             nodes[Len(nodes)]), NULL)
    ELSE
    [n \in Any |->
    decl_args_loop(n.p, Append(nodes, [n.ast EXCEPT !.name = name]))
    ][spn_ast_new(q1, "DECLARGS")]
    ][spn_accept(q, "IDENT")]
    ][spn_accept(q0, "COMMA")]

\* the while loop of parse_decl_args; nodes is the list from res (its
\* first node) to ast (its last node)
decl_args_loop(q0, nodes) ==
    [q \in Any |->
    IF q.ret = 0 THEN R(q, ChainLeft(nodes))
    ELSE
    LET name == q.curtok.val.v IN
    [q1 \in Any |->
    IF q1.ret = 0
    THEN R(spn_ast_free(spn_value_release(spn_parser_error(q1,
               "expected identifier in function argument list")),
             nodes[Len(nodes)]), NULL)
    ELSE
    [n \in Any |->
    decl_args_loop(n.p, Append(nodes, [n.ast EXCEPT !.name = name]))
    ][spn_ast_new(q1, "DECLARGS")]
    ][spn_accept(q, "IDENT")]
    ][spn_accept(q0, "COMMA")]

parse_call_args(q) ==
    [e \in Any |->
    IF e.ast = NULL THEN R(e.p, NULL)
    ELSE
    [n \in Any |->
    call_args_loop(n.p, [n.ast EXCEPT !.right = e.ast])
    ][spn_ast_new(e.p, "CALLARGS")]
    ][parse_expr(q)]

\* a loop that puts the new argument in left and the list so far in right
call_args_loop_swap(q0, ast) ==
    [q \in Any |->
    IF q.ret = 0 THEN R(q, ast)
    ELSE
    [r \in Any |->
    IF r.ast = NULL THEN R(spn_ast_free(r.p, ast), NULL)
    ELSE
    [n \in Any |->
    call_args_loop(n.p, [n.ast EXCEPT !.left = r.ast, !.right = ast])
    ][spn_ast_new(r.p, "CALLARGS")]
    ][parse_expr(q)]
    ][spn_accept(q0, "COMMA")]

\* the while loop of parse_call_args
call_args_loop(q0, ast) ==
    [q \in Any |->
    IF q.ret = 0 THEN R(q, ast)
    ELSE
    [r \in Any |->
    IF r.ast = NULL THEN R(spn_ast_free(r.p, ast), NULL)
    ELSE
    [n \in Any |->
    call_args_loop(n.p, [n.ast EXCEPT !.left = ast, !.right = r.ast])
    ][spn_ast_new(r.p, "CALLARGS")]
    ][parse_expr(q)]
    ][spn_accept(q0, "COMMA")]

parse_binexpr_rightassoc(q, toks, nodes, subexpr) ==
    [a \in Any |->
    IF a.ast = NULL THEN R(a.p, NULL)
    ELSE
    [q1 \in Any |->
    IF q1.ret < 0 THEN R(q1, a.ast)
    ELSE
    [r \in Any |->
    IF r.ast = NULL THEN R(spn_ast_free(r.p, a.ast), NULL)
    ELSE
    [n \in Any |->
    R(n.p, [n.ast EXCEPT !.left = a.ast, !.right = r.ast])
    ][spn_ast_new(r.p, nodes[q1.ret + 1])]
    ][parse_binexpr_rightassoc(q1, toks, nodes, subexpr)]
    ][spn_accept_multi(a.p, toks)]
    ][call(subexpr, q)]

parse_binexpr_leftassoc(q, toks, nodes, subexpr) ==
    [a \in Any |->
    IF a.ast = NULL THEN R(a.p, NULL)
    ELSE leftassoc_loop(a.p, a.ast, toks, nodes, subexpr)
    ][call(subexpr, q)]

\* the while loop of parse_binexpr_leftassoc
leftassoc_loop(q0, ast, toks, nodes, subexpr) ==
    [q \in Any |->
    IF q.ret < 0 THEN R(q, ast)
    ELSE
    [r \in Any |->
    IF r.ast = NULL THEN R(spn_ast_free(r.p, ast), NULL)
    ELSE
    [n \in Any |->
    leftassoc_loop(n.p, [n.ast EXCEPT !.left = ast, !.right = r.ast],
                   toks, nodes, subexpr)
    ][spn_ast_new(r.p, nodes[q.ret + 1])]
    ][call(subexpr, q)]
    ][spn_accept_multi(q0, toks)]

-----------------------------------------------------------------------------
(* The parser: statements *)

\* the keyword statements whose production begins by skipping the keyword
\* with a bare advance
parse_break(q0) ==
    [q \in Any |->
    IF q.ret = 0 THEN R(q, NULL)
    ELSE
    [q1 \in Any |->
    IF q1.ret = 0
    THEN R(spn_value_release(spn_parser_error(q1, "expected `;' after `break'")),
           NULL)
    ELSE spn_ast_new(q1, "BREAK")
    ][spn_accept(q, "SEMICOLON")]
    ][spn_lex(q0)]

parse_continue(q0) ==
    [q \in Any |->
    IF q.ret = 0 THEN R(q, NULL)
    ELSE
    [q1 \in Any |->
    IF q1.ret = 0
    THEN R(spn_value_release(spn_parser_error(q1,
               "expected `;' after `continue'")), NULL)
    ELSE spn_ast_new(q1, "CONTINUE")
    ][spn_accept(q, "SEMICOLON")]
    ][spn_lex(q0)]

parse_empty(q0) ==
    [q \in Any |->
    IF q.error # 0 THEN R(q, NULL) ELSE spn_ast_new(q, "EMPTY")
    ][spn_lex(q0)]

parse_return(q0) ==
    [q \in Any |->
    IF q.ret = 0 THEN R(q, NULL)
    ELSE
    [q1 \in Any |->
    IF q1.ret = 1 THEN spn_ast_new(q1, "RETURN")
    ELSE
    [e \in Any |->
    IF e.ast = NULL THEN R(e.p, NULL)
    ELSE
    [q2 \in Any |->
    IF q2.ret = 1
    THEN [n \in Any |->
         R(n.p, [n.ast EXCEPT !.left = e.ast])
         ][spn_ast_new(q2, "RETURN")]
    ELSE R(spn_ast_free(spn_parser_error(q2,
               "expected `;' after expression in return statement"), e.ast),
           NULL)
    ][spn_accept(e.p, "SEMICOLON")]
    ][parse_expr(q1)]
    ][spn_accept(q, "SEMICOLON")]
    ][spn_lex(q0)]

parse_expr_stmt(q) ==
    [e \in Any |->
    IF e.ast = NULL THEN R(e.p, NULL)
    ELSE
    [q1 \in Any |->
    IF q1.ret = 1 THEN R(q1, e.ast)
    ELSE R(spn_ast_free(spn_value_release(spn_parser_error(q1,
               "expected `;' after expression")), e.ast), NULL)
    ][spn_accept(e.p, "SEMICOLON")]
    ][parse_expr(q)]

parse_if(q0) ==
    [q \in Any |->
    IF q.ret = 0 THEN R(q, NULL)
    ELSE
    [c \in Any |->
    IF c.ast = NULL THEN R(c.p, NULL)
    ELSE
    [t \in Any |->
    IF t.ast = NULL THEN R(spn_ast_free(t.p, c.ast), NULL)
    ELSE
    [q1 \in Any |->
    LET haselse == q1.ret = 1 IN
    IF haselse /\ q1.curtok.tok \notin {"LBRACE", "IF"}
    THEN R(spn_ast_free(spn_ast_free(spn_parser_error(q1,
               "expected block or 'if' after 'else'"), c.ast), t.ast), NULL)
    ELSE
    [e \in Any |->
    IF haselse /\ e.ast = NULL
    THEN R(spn_ast_free(spn_ast_free(e.p, c.ast), t.ast), NULL)
    ELSE
    [b \in Any |->
    LET br == [b.ast EXCEPT !.left = t.ast,
                            !.right = IF haselse THEN e.ast ELSE NULL] IN
    [n \in Any |->
    R(n.p, [n.ast EXCEPT !.left = c.ast, !.right = br])
    ][spn_ast_new(b.p, "IF")]
    ][spn_ast_new(IF haselse THEN e.p ELSE q1, "BRANCHES")]
    ][IF ~haselse THEN R(q1, NULL)
      ELSE IF q1.curtok.tok = "LBRACE" THEN parse_block(q1)
      ELSE parse_if(q1)]
    ][spn_accept(t.p, "ELSE")]
    ][parse_block(c.p)]
    ][parse_expr(q)]
    ][spn_lex(q0)]

parse_while(q0) ==
    [q \in Any |->
    IF q.ret = 0 THEN R(q, NULL)
    ELSE
    [c \in Any |->
    IF c.ast = NULL THEN R(c.p, NULL)
    ELSE
    [b \in Any |->
    IF b.ast = NULL THEN R(spn_ast_free(b.p, c.ast), NULL)
    ELSE
    [n \in Any |->
    R(n.p, [n.ast EXCEPT !.left = c.ast, !.right = b.ast])
    ][spn_ast_new(b.p, "WHILE")]
    ][parse_block(c.p)]
    ][parse_expr(q)]
    ][spn_lex(q0)]

parse_do(q0) ==
    [q \in Any |->
    IF q.ret = 0 THEN R(q, NULL)
    ELSE
    [b \in Any |->
    IF b.ast = NULL THEN R(b.p, NULL)
    ELSE
    [q1 \in Any |->
    IF q1.ret = 0
    THEN R(spn_ast_free(spn_value_release(spn_parser_error(q1,
               "expected `while' after body of do-while statement")), b.ast),
           NULL)
    ELSE
    [c \in Any |->
    IF c.ast = NULL THEN R(spn_ast_free(c.p, b.ast), NULL)
    ELSE
    [q2 \in Any |->
    IF q2.ret = 0
    THEN R(spn_ast_free(spn_ast_free(spn_value_release(spn_parser_error(q2,
               "expected `;' after condition of do-while statement")),
             b.ast), c.ast), NULL)
    ELSE
    [n \in Any |->
    R(n.p, [n.ast EXCEPT !.left = c.ast, !.right = b.ast])
    ][spn_ast_new(q2, "DO")]
    ][spn_accept(c.p, "SEMICOLON")]
    ][parse_expr(q1)]
    ][spn_accept(b.p, "WHILE")]
    ][parse_block(q)]
    ][spn_lex(q0)]

\* a header list with the second and the third part in each other's place
loop_node_swap(q, node, a, b, c, body) ==
    [h1 \in Any |->
    [h2 \in Any |->
    [h3 \in Any |->
    LET l3 == [h3.ast EXCEPT !.left = b]
        l2 == [h2.ast EXCEPT !.left = c, !.right = l3]
        l1 == [h1.ast EXCEPT !.left = a, !.right = l2]
    IN
    [n \in Any |->
    R(n.p, [n.ast EXCEPT !.left = l1, !.right = body])
    ][spn_ast_new(h3.p, node)]
    ][spn_ast_new(h2.p, "FORHEADER")]
    ][spn_ast_new(h1.p, "FORHEADER")]
    ][spn_ast_new(q, "FORHEADER")]

\* the three-link header list and the loop node that parse_for and
\* parse_foreach build from the parts they parsed
loop_node(q, node, a, b, c, body) ==
    [h1 \in Any |->
    [h2 \in Any |->
    [h3 \in Any |->
    LET l3 == [h3.ast EXCEPT !.left = c]
        l2 == [h2.ast EXCEPT !.left = b, !.right = l3]
        l1 == [h1.ast EXCEPT !.left = a, !.right = l2]
    IN
    [n \in Any |->
    R(n.p, [n.ast EXCEPT !.left = l1, !.right = body])
    ][spn_ast_new(h3.p, node)]
    ][spn_ast_new(h2.p, "FORHEADER")]
    ][spn_ast_new(h1.p, "FORHEADER")]
    ][spn_ast_new(q, "FORHEADER")]

parse_for(q0) ==
    [q \in Any |->
    IF q.ret = 0 THEN R(q, NULL)
    ELSE
    [init \in Any |->
    IF init.ast = NULL THEN R(init.p, NULL)
    ELSE
    [q1 \in Any |->
    IF q1.ret = 0
    THEN R(spn_ast_free(spn_value_release(spn_parser_error(q1,
               "expected `;' after initialization of for loop")), init.ast),
           NULL)
    ELSE
    [cond \in Any |->
    IF cond.ast = NULL THEN R(spn_ast_free(cond.p, init.ast), NULL)
    ELSE
    [q2 \in Any |->
    IF q2.ret = 0
    THEN R(spn_ast_free(spn_ast_free(spn_value_release(spn_parser_error(q2,
               "expected `;' after condition of for loop")),
             init.ast), cond.ast), NULL)
    ELSE
    [incr \in Any |->
    IF incr.ast = NULL
    THEN R(spn_ast_free(spn_ast_free(incr.p, init.ast), cond.ast), NULL)
    ELSE
    [body \in Any |->
    IF body.ast = NULL
    THEN R(spn_ast_free(spn_ast_free(spn_ast_free(body.p, init.ast),
             cond.ast), incr.ast), NULL)
    ELSE loop_node(body.p, "FOR", init.ast, cond.ast, incr.ast, body.ast)
    ][parse_block(incr.p)]
    ][parse_expr(q2)]
    ][spn_accept(cond.p, "SEMICOLON")]
    ][parse_expr(q1)]
    ][spn_accept(init.p, "SEMICOLON")]
    ][parse_expr(q)]
    ][spn_lex(q0)]

parse_foreach(q0) ==
    [q \in Any |->
    IF q.ret = 0 THEN R(q, NULL)
    ELSE
    LET name1 == q.curtok.val.v IN
    [q1 \in Any |->
    IF q1.ret = 0
    THEN R(spn_value_release(spn_parser_error(q1,
               "key in foreach loop must be a variable")), NULL)
    ELSE
    [k \in Any |->
    LET key == [k.ast EXCEPT !.name = name1] IN
    [q2 \in Any |->
    IF q2.ret = 0
    THEN R(spn_ast_free(spn_value_release(spn_parser_error(q2,
               "expected `as' after key in foreach loop")), key), NULL)
    ELSE
    LET name2 == q2.curtok.val.v IN
    [q3 \in Any |->
    IF q3.ret = 0
    THEN R(spn_ast_free(spn_value_release(spn_parser_error(q3,
               "value in foreach loop must be a variable")), key), NULL)
    ELSE
    [v \in Any |->
    LET val == [v.ast EXCEPT !.name = name2] IN
    [q4 \in Any |->
    IF q4.ret = 0
    THEN R(spn_ast_free(spn_ast_free(spn_value_release(spn_parser_error(q4,
               "expected `in' after value in foreach loop")), key), val), NULL)
    ELSE
    [arr \in Any |->
    IF arr.ast = NULL
    THEN R(spn_ast_free(spn_ast_free(arr.p, key), val), NULL)
    ELSE
    [body \in Any |->
    IF body.ast = NULL
    THEN R(spn_ast_free(spn_ast_free(spn_ast_free(body.p, key), val),
             arr.ast), NULL)
    ELSE loop_node(body.p, "FOREACH", key, val, arr.ast, body.ast)
    ][parse_block(arr.p)]
    ][parse_expr(q4)]
    ][spn_accept(v.p, "IN")]
    ][spn_ast_new(q3, "IDENT")]
    ][spn_accept(q2, "IDENT")]
    ][spn_accept(k.p, "AS")]
    ][spn_ast_new(q1, "IDENT")]
    ][spn_accept(q, "IDENT")]
    ][spn_lex(q0)]

parse_vardecl(q0) == vardecl_loop(spn_lex(q0), <<>>)

\* the do-while loop of parse_vardecl; nodes is the list from ast (its
\* head) to tail, empty before the first declaration
vardecl_loop(q0, nodes) ==
    LET name == q0.curtok.val.v IN
    [q \in Any |->
    IF q.ret = 0
    THEN R(spn_value_release(spn_parser_error(q,
               "expected identifier in declaration")), NULL)
    ELSE
    [q1 \in Any |->
    LET hasinit == q1.ret = 1 IN
    [e \in Any |->
    IF hasinit /\ e.ast = NULL
    THEN R(spn_ast_free(spn_object_release(e.p, name), ChainRight(nodes)), NULL)
    ELSE
    [n \in Any |->
    LET tmp == [n.ast EXCEPT !.name = name,
                             !.left = IF hasinit THEN e.ast ELSE NULL]
        list == Append(nodes, tmp)
    IN
    [q2 \in Any |->
    IF q2.ret = 1 THEN vardecl_loop(q2, list)
    ELSE
    [q3 \in Any |->
    IF q3.ret = 0
    THEN R(spn_ast_free(spn_value_release(spn_parser_error(q3,
               "expected`;' after variable initialization")),
             ChainRight(list)), NULL)
    ELSE R(q3, ChainRight(list))
    ][spn_accept(q2, "SEMICOLON")]
    ][spn_accept(n.p, "COMMA")]
    ][spn_ast_new(IF hasinit THEN e.p ELSE q1, "VARDECL")]
    ][IF hasinit THEN parse_expr(q1) ELSE R(q1, NULL)]
    ][spn_accept(q, "ASSIGN")]
    ][spn_accept(q0, "IDENT")]

parse_function(q0, is_stmt) ==
    [q \in Any |->
    IF q.ret = 0
    THEN R(spn_value_release(spn_parser_error(q,
               "internal error, expected `function'")), NULL)
    ELSE IF is_stmt = 1 /\ q.curtok.tok # "IDENT"
    THEN R(spn_value_release(spn_parser_error(q,
               "expected function name in function statement")), NULL)
    ELSE
    LET node == IF is_stmt = 1 THEN "FUNCSTMT" ELSE "FUNCEXPR"
        name == IF is_stmt = 1 THEN q.curtok.val.v ELSE 0
    IN
    [q1 \in Any |->
    IF q1.ret = 0
    THEN R(spn_object_release(spn_value_release(spn_parser_error(q1,
               "expected `(' in function header")), name), NULL)
    ELSE
    [n \in Any |->
    LET ast == [n.ast EXCEPT !.name = name] IN
    [q2 \in Any |->
    LET hasargs == q2.ret = 0 IN
    [a \in Any |->
    IF hasargs /\ a.ast = NULL THEN R(spn_ast_free(a.p, ast), NULL)
    ELSE
    LET ast1 == IF hasargs THEN [ast EXCEPT !.left = a.ast] ELSE ast IN
    [q3 \in Any |->
    IF hasargs /\ q3.ret = 0
    THEN R(spn_ast_free(spn_value_release(spn_parser_error(q3,
               "expected `)' after function argument list")), ast1), NULL)
    ELSE
    [body \in Any |->
    IF body.ast = NULL THEN R(spn_ast_free(body.p, ast1), NULL)
    ELSE R(body.p, [ast1 EXCEPT !.right = body.ast])
    ][parse_block(IF hasargs THEN q3 ELSE q2)]
    ][IF hasargs THEN spn_accept(a.p, "RPAREN") ELSE q2]
    ][IF hasargs THEN parse_decl_args(q2) ELSE R(q2, NULL)]
    ][spn_accept(n.p, "RPAREN")]
    ][spn_ast_new(q1, node)]
    ][spn_accept(IF is_stmt = 1 THEN spn_lex(q) ELSE q, "LPAREN")]
    ][spn_accept(q0, "FUNCTION")]

\* a block in which { } makes a Block node with no statement
parse_block_hollow(q0) ==
    [q \in Any |->
    IF q.ret = 0
    THEN R(spn_value_release(spn_parser_error(q,
               "expected `{' in block statement")), NULL)
    ELSE
    [q1 \in Any |->
    IF q1.ret = 1 THEN spn_ast_new(q1, "BLOCK")
    ELSE
    [l \in Any |->
    IF l.ast = NULL THEN R(l.p, NULL)
    ELSE
    [q2 \in Any |->
    IF q2.ret = 0
    THEN R(spn_ast_free(spn_value_release(spn_parser_error(q2,
               "expected `}' at end of block statement")), l.ast), NULL)
    ELSE IF l.ast.node = "COMPOUND"
    THEN R(q2, [l.ast EXCEPT !.node = "BLOCK"])
    ELSE
    [n \in Any |->
    R(n.p, [n.ast EXCEPT !.left = l.ast])
    ][spn_ast_new(q2, "BLOCK")]
    ][spn_accept(l.p, "RBRACE")]
    ][parse_stmt_list(q1)]
    ][spn_accept(q, "RBRACE")]
    ][spn_accept(q0, "LBRACE")]

parse_block(q0) ==
    [q \in Any |->
    IF q.ret = 0
    THEN R(spn_value_release(spn_parser_error(q,
               "expected `{' in block statement")), NULL)
    ELSE
    [q1 \in Any |->
    IF q1.ret = 1 THEN spn_ast_new(q1, "EMPTY")
    ELSE
    [l \in Any |->
    IF l.ast = NULL THEN R(l.p, NULL)
    ELSE
    [q2 \in Any |->
    IF q2.ret = 0
    THEN R(spn_ast_free(spn_value_release(spn_parser_error(q2,
               "expected `}' at end of block statement")), l.ast), NULL)
    ELSE IF l.ast.node = "COMPOUND"
    THEN R(q2, [l.ast EXCEPT !.node = "BLOCK"])
    ELSE
    [n \in Any |->
    R(n.p, [n.ast EXCEPT !.left = l.ast])
    ][spn_ast_new(q2, "BLOCK")]
    ][spn_accept(l.p, "RBRACE")]
    ][parse_stmt_list(q1)]
    ][spn_accept(q, "RBRACE")]
    ][spn_accept(q0, "LBRACE")]

\* a dispatch that takes function for the start of an expression at file
\* scope too
parse_stmt_local(q0, is_global) ==
    IF Again(q0, "stmt") THEN Hang(q0)
    ELSE
    [q \in Any |->
    CASE q.curtok.tok = "IF"        -> parse_if(q)
      [] q.curtok.tok = "WHILE"     -> parse_while(q)
      [] q.curtok.tok = "DO"        -> parse_do(q)
      [] q.curtok.tok = "FOR"       -> parse_for(q)
      [] q.curtok.tok = "FOREACH"   -> parse_foreach(q)
      [] q.curtok.tok = "BREAK"     -> parse_break(q)
      [] q.curtok.tok = "CONTINUE"  -> parse_continue(q)
      [] q.curtok.tok = "RETURN"    -> parse_return(q)
      [] q.curtok.tok = "SEMICOLON" -> parse_empty(q)
      [] q.curtok.tok = "LBRACE"    -> parse_block(q)
      [] q.curtok.tok = "VAR"       -> parse_vardecl(q)
      [] q.curtok.tok = "FUNCTION"  -> parse_expr_stmt(q)
      [] OTHER                      -> parse_expr_stmt(q)
    ][Start(q0, "stmt")]

parse_stmt(q0, is_global) ==
    IF Again(q0, "stmt") THEN Hang(q0)
    ELSE
    [q \in Any |->
    CASE q.curtok.tok = "IF"        -> parse_if(q)
      [] q.curtok.tok = "WHILE"     -> parse_while(q)
      [] q.curtok.tok = "DO"        -> parse_do(q)
      [] q.curtok.tok = "FOR"       -> parse_for(q)
      [] q.curtok.tok = "FOREACH"   -> parse_foreach(q)
      [] q.curtok.tok = "BREAK"     -> parse_break(q)
      [] q.curtok.tok = "CONTINUE"  -> parse_continue(q)
      [] q.curtok.tok = "RETURN"    -> parse_return(q)
      [] q.curtok.tok = "SEMICOLON" -> parse_empty(q)
      [] q.curtok.tok = "LBRACE"    -> parse_block(q)
      [] q.curtok.tok = "VAR"       -> parse_vardecl(q)
      [] q.curtok.tok = "FUNCTION"  ->
           IF is_global = 1 THEN parse_function(q, 1) ELSE parse_expr_stmt(q)
      [] OTHER                      -> parse_expr_stmt(q)
    ][Start(q0, "stmt")]

\* a statement list whose first statement is dispatched as one at file
\* scope
parse_stmt_list_global(q) ==
    [s \in Any |->
    IF s.ast = NULL THEN R(s.p, NULL) ELSE stmt_list_loop(s.p, s.ast)
    ][parse_stmt(q, 1)]

parse_stmt_list(q) ==
    [s \in Any |->
    IF s.ast = NULL THEN R(s.p, NULL) ELSE stmt_list_loop(s.p, s.ast)
    ][parse_stmt(q, 0)]

\* a loop that puts the new statement in left and the list so far in right
stmt_list_loop_swap(q, ast) ==
    IF q.curtok.tok = "RBRACE" THEN R(q, ast)
    ELSE
    [r \in Any |->
    IF r.ast = NULL THEN R(spn_ast_free(r.p, ast), NULL)
    ELSE
    [n \in Any |->
    stmt_list_loop(n.p, [n.ast EXCEPT !.left = r.ast, !.right = ast])
    ][spn_ast_new(r.p, "COMPOUND")]
    ][parse_stmt(q, 0)]

\* the while loop of parse_stmt_list
stmt_list_loop(q, ast) ==
    IF q.curtok.tok = "RBRACE" THEN R(q, ast)
    ELSE
    [r \in Any |->
    IF r.ast = NULL THEN R(spn_ast_free(r.p, ast), NULL)
    ELSE
    [n \in Any |->
    stmt_list_loop(n.p, [n.ast EXCEPT !.left = ast, !.right = r.ast])
    ][spn_ast_new(r.p, "COMPOUND")]
    ][parse_stmt(q, 0)]

\* a loop that puts the new statement in left and the list so far in right
RECURSIVE program_loop_swap(_, _)
program_loop_swap(q, sub) ==
    IF q.eof # 0 THEN R(q, sub)
    ELSE
    [r \in Any |->
    IF r.ast = NULL THEN R(spn_ast_free(r.p, sub), NULL)
    ELSE
    [n \in Any |->
    program_loop_swap(n.p, [n.ast EXCEPT !.left = r.ast, !.right = sub])
    ][spn_ast_new(r.p, "COMPOUND")]
    ][parse_stmt(q, 1)]

\* the while loop of parse_program_nonempty
RECURSIVE program_loop(_, _)
program_loop(q, sub) ==
    IF q.eof # 0 THEN R(q, sub)
    ELSE
    [r \in Any |->
    IF r.ast = NULL THEN R(spn_ast_free(r.p, sub), NULL)
    ELSE
    [n \in Any |->
    program_loop(n.p, [n.ast EXCEPT !.left = sub, !.right = r.ast])
    ][spn_ast_new(r.p, "COMPOUND")]
    ][parse_stmt(q, 1)]

\* a program whose list of statements always gets a root of its own
parse_program_nonempty_wrap(q) ==
    [s \in Any |->
    IF s.ast = NULL THEN R(s.p, NULL)
    ELSE
    [l \in Any |->
    IF l.ast = NULL THEN R(l.p, NULL)
    ELSE
    [n \in Any |->
    R(n.p, [n.ast EXCEPT !.left = l.ast])
    ][spn_ast_new(l.p, "PROGRAM")]
    ][program_loop(s.p, s.ast)]
    ][parse_stmt(q, 1)]

parse_program_nonempty(q) ==
    [s \in Any |->
    IF s.ast = NULL THEN R(s.p, NULL)
    ELSE
    [l \in Any |->
    IF l.ast = NULL THEN R(l.p, NULL)
    ELSE IF l.ast.node = "COMPOUND"
    THEN R(l.p, [l.ast EXCEPT !.node = "PROGRAM"])
    ELSE
    [n \in Any |->
    R(n.p, [n.ast EXCEPT !.left = l.ast])
    ][spn_ast_new(l.p, "PROGRAM")]
    ][program_loop(s.p, s.ast)]
    ][parse_stmt(q, 1)]

\* a program that takes every first advance with no token for an empty
\* source
parse_program_blind(q0) ==
    [q \in Any |->
    IF q.ret = 0
    THEN spn_ast_new(q, "PROGRAM")
    ELSE
    [t \in Any |->
    IF t.p.eof # 0 THEN t
    ELSE
    [q1 \in Any |->
    R(IF q1.error = 0 THEN spn_parser_error(q1, "garbage after input") ELSE q1,
      NULL)
    ][spn_ast_free(t.p, t.ast)]
    ][parse_program_nonempty(q)]
    ][spn_lex(q0)]

parse_program(q0) ==
    [q \in Any |->
    IF q.ret = 0
    THEN IF q.error # 0 THEN R(q, NULL) ELSE spn_ast_new(q, "PROGRAM")
    ELSE
    [t \in Any |->
    IF t.p.eof # 0 THEN t
    ELSE
    [q1 \in Any |->
    R(IF q1.error = 0 THEN spn_parser_error(q1, "garbage after input") ELSE q1,
      NULL)
    ][spn_ast_free(t.p, t.ast)]
    ][parse_program_nonempty(q)]
    ][spn_lex(q0)]

-----------------------------------------------------------------------------
(* The parser object *)

\* the observations of one call, cleared when it starts
Observe(q, s) ==
    [q EXCEPT !.nalloc = 0, !.nfree = 0, !.rel = [i \in 1..Len(s) |-> 0],
              !.ndiag = 0, !.sink = <<>>, !.started = {}, !.hang = FALSE]

spn_parser_new(eoftok) ==
    [src |-> <<>>, pos |-> 0, eof |-> 0, error |-> 0, lineno |-> 1,
     errmsg |-> [line |-> 0, msg |-> "", nl |-> FALSE],
     curtok |-> NoTok, ret |-> 0, eoftok |-> eoftok,
     nalloc |-> 0, nfree |-> 0, rel |-> <<>>, ndiag |-> 0, sink |-> <<>>,
     started |-> {}, hang |-> FALSE]

\* a call that leaves the error flag as the call before left it
spn_parser_parse_keep(q, s) ==
    parse_program([Observe(q, s) EXCEPT !.src = s, !.pos = 1, !.eof = 0,
                                        !.lineno = 1])

spn_parser_parse(q, s) ==
    parse_program([Observe(q, s) EXCEPT !.src = s, !.pos = 1, !.eof = 0,
                                        !.error = 0, !.lineno = 1])

-----------------------------------------------------------------------------
(* The state machine *)

\* how many lexemes are typed after the first source text, per family
MaxStmtLen == 3

MaxDeclLen == 6

MaxTail == 2

\* how many empty statements are typed after an expression statement
MaxEmpty == 1

\* how many operators a chain of operators of one level has
MaxChain == 4

\* how many postfix operators follow one term
MaxPostfix == 3

\* how many statements a list of statements has
MaxList == 3

\* how deep loops are nested in the bodies of loops
MaxNest == 1

\* how many lexemes a source text typed from nothing has
MaxText == 4

\* how many entries a list of declarations or of call arguments has
MaxArgs == 3

\* how many line breaks stand between two lexemes of a source text
MaxBreaks == 1

\* how many lexemes a source text that may end inside a block or inside an
\* expression has
MaxOpen == 3

\* sources of keyword statements
StmtAlphabet == {"IF", "WHILE", "DO", "FOR", "FOREACH", "BREAK", "CONTINUE",
                 "RETURN", "IDENT", "SEMICOLON", "LBRACE", "RBRACE"}

\* sources of declarations: the header of a function statement, a variable
\* declaration
FuncSeeds == {<<"FUNCTION", "IDENT">>}

FuncAlphabet == {"IDENT", "INT", "COMMA", "LPAREN", "RPAREN", "LEXERR"}

VarSeeds == {<<"VAR">>}

VarAlphabet == {"IDENT", "INT", "COMMA", "ASSIGN", "SEMICOLON", "LEXERR"}

\* sources that end in a token with a payload where none may stand
ReleaseSeeds == {<<"RETURN", "IDENT">>,
                 <<"IF", "IDENT", "LBRACE", "RBRACE", "ELSE">>,
                 <<"IDENT", "DOT">>, <<"IDENT", "ARROW">>}

ReleaseAlphabet == {"IDENT", "STR", "SEMICOLON", "LBRACE"}

\* the tokens of the binary operators, by the production that accepts them
LevelToks ==
    { {AssignToks[i] : i \in DOMAIN AssignToks}, {"DOTDOT"}, {"LOGOR"},
      {"LOGAND"}, {ComparisonToks[i] : i \in DOMAIN ComparisonToks},
      {"BITOR"}, {"XOR"}, {"BITAND"}, {"SHL", "SHR"}, {"PLUS", "MINUS"},
      {"MUL", "DIV", "MOD"} }

BinaryToks == UNION LevelToks

PrefixSet == {PrefixToks[i] : i \in DOMAIN PrefixToks}

\* one postfix operator with what it needs after it
PostfixItems ==
    { <<"INCR">>, <<"DECR">>, <<"LPAREN", "RPAREN">>,
      <<"LPAREN", "IDENT", "RPAREN">>, <<"LBRACKET", "IDENT", "RBRACKET">>,
      <<"DOT", "IDENT">>, <<"ARROW", "IDENT">> }

\* expression statements: a o1 b o2 c;  pre a o b;  pre a post;
Pair(o1, o2) == <<"IDENT", o1, "IDENT", o2, "IDENT", "SEMICOLON">>

PrefixBinary(pre, o) == <<pre, "IDENT", o, "IDENT", "SEMICOLON">>

PrefixPostfix(pre, post) == <<pre, "IDENT">> \o post \o <<"SEMICOLON">>

PrecSeeds ==
    {Pair(o1, o2) : o1 \in BinaryToks, o2 \in BinaryToks}
    \cup {PrefixBinary(pre, o) : pre \in PrefixSet, o \in BinaryToks}
    \cup {PrefixPostfix(pre, post) : pre \in PrefixSet, post \in PostfixItems}

\* expression statements: a o1 b o2 c ... ; with the operators of one
\* production, and pre1 pre2 ... a;
Chain(ops) ==
    [i \in 1..(2 * Len(ops) + 2) |->
        IF i = 2 * Len(ops) + 2 THEN "SEMICOLON"
        ELSE IF i % 2 = 1 THEN "IDENT" ELSE ops[i \div 2]]

PrefixChain(ops) == ops \o <<"IDENT", "SEMICOLON">>

\* the operators that chains of more than two operators are made of
LongChainToks ==
    {"ASSIGN", "PLUSEQ", "DOTDOTEQ", "DOTDOT", "LOGOR", "LOGAND", "EQUAL",
     "LESS", "BITOR", "XOR", "BITAND", "SHL", "SHR", "PLUS", "MINUS", "MUL",
     "DIV", "MOD", "LOGNOT", "INCR"}

\* chains of two operators, of every operator; longer chains
AssocSeeds ==
    UNION {{Chain(ops) : ops \in [1..2 -> L]} : L \in LevelToks}
    \cup {PrefixChain(ops) : ops \in [1..2 -> PrefixSet]}
    \cup UNION {{Chain(ops) : ops \in [1..k -> L \cap LongChainToks]} :
                   k \in 3..MaxChain, L \in LevelToks}
    \cup UNION {{PrefixChain(ops) :
                      ops \in [1..k -> PrefixSet \cap LongChainToks]} :
                   k \in 3..MaxChain}

\* conditional expressions: a ? b : c ? d : e;  a ? b o c : d;
\* a ? b : c o d;  and a ? b with no colon after it
NestedCond ==
    <<"IDENT", "QMARK", "IDENT", "COLON", "IDENT", "QMARK", "IDENT", "COLON",
      "IDENT", "SEMICOLON">>

TrueOp(o) ==
    <<"IDENT", "QMARK", "IDENT", o, "IDENT", "COLON", "IDENT", "SEMICOLON">>

FalseOp(o) ==
    <<"IDENT", "QMARK", "IDENT", "COLON", "IDENT", o, "IDENT", "SEMICOLON">>

NoColon(t) == <<"IDENT", "QMARK", "IDENT", t, "SEMICOLON">>

NoColonToks == {"SEMICOLON", "IDENT", "STR", "INT", "RPAREN", "COMMA"}

CondSeeds ==
    {NestedCond}
    \cup {TrueOp(o) : o \in BinaryToks}
    \cup {FalseOp(o) : o \in BinaryToks}
    \cup {NoColon(t) : t \in NoColonToks}

\* postfix expressions: a term and up to MaxPostfix postfix operators
RECURSIVE Flatten(_)
Flatten(items) ==
    IF items = <<>> THEN <<>> ELSE Head(items) \o Flatten(Tail(items))

PostfixChain(items) == <<"IDENT">> \o Flatten(items) \o <<"SEMICOLON">>

PostfixSeeds ==
    UNION {{PostfixChain(items) : items \in [1..k -> PostfixItems]} :
              k \in 1..MaxPostfix}

\* function expressions function (args) { } in the places of a term: the
\* lexemes before and after them
FuncExprText(args) ==
    <<"FUNCTION", "LPAREN">> \o args \o <<"RPAREN", "LBRACE", "RBRACE">>

FuncArgs == {<<>>, <<"IDENT">>, <<"IDENT", "COMMA", "IDENT">>}

CallOne == <<"LPAREN", "INT", "RPAREN", "SEMICOLON">>

\* at program scope, as the first term of a statement
TopContexts == {<< <<>>, CallOne >>, << <<>>, <<"SEMICOLON">> >>}

\* anywhere else
TermContexts ==
    { << <<"IDENT", "ASSIGN">>, <<"SEMICOLON">> >>,
      << <<"LPAREN">>, <<"RPAREN">> \o CallOne >>,
      << <<"IDENT", "LPAREN">>, <<"RPAREN", "SEMICOLON">> >>,
      << <<"IDENT", "PLUS">>, <<"SEMICOLON">> >>,
      << <<"LOGNOT">>, <<"SEMICOLON">> >>,
      << <<"RETURN">>, <<"SEMICOLON">> >>,
      << <<"VAR", "IDENT", "ASSIGN">>, <<"SEMICOLON">> >>,
      << <<"LBRACE">>, CallOne \o <<"RBRACE">> >>,
      << <<"LBRACE">>, <<"SEMICOLON", "RBRACE">> >>,
      << <<"FUNCTION", "IDENT", "LPAREN", "RPAREN", "LBRACE">>,
         CallOne \o <<"RBRACE">> >> }

InContext(c, args) == c[1] \o FuncExprText(args) \o c[2]

TopSeeds == {InContext(c, args) : c \in TopContexts, args \in FuncArgs}

TermSeeds == {InContext(c, args) : c \in TermContexts, args \in FuncArgs}

\* function statements function f(args) { } at program scope, and the same
\* text in a block or in the place of a term
FuncStmtText(args) ==
    <<"FUNCTION", "IDENT", "LPAREN">> \o args \o <<"RPAREN", "LBRACE", "RBRACE">>

\* at program scope: the lexemes before and after the function statement
ScopeContexts ==
    { << <<>>, <<>> >>,
      << <<>>, <<"IDENT", "SEMICOLON">> >>,
      << <<"IDENT", "SEMICOLON">>, <<>> >>,
      << <<"LBRACE", "RBRACE">>, <<>> >>,
      << <<"SEMICOLON", "SEMICOLON">>, <<"SEMICOLON">> >> }

\* in a block, of any depth, and in the places of a term
InnerContexts ==
    { << <<"LBRACE">>, <<"RBRACE">> >>,
      << <<"LBRACE", "IDENT", "SEMICOLON">>, <<"RBRACE">> >>,
      << <<"IDENT", "SEMICOLON", "LBRACE">>, <<"RBRACE">> >>,
      << <<"LBRACE", "LBRACE">>, <<"RBRACE", "RBRACE">> >>,
      << <<"WHILE", "IDENT", "LBRACE">>, <<"RBRACE">> >>,
      << <<"FUNCTION", "IDENT", "LPAREN", "RPAREN", "LBRACE">>, <<"RBRACE">> >>,
      << <<"IDENT", "ASSIGN">>, <<"SEMICOLON">> >>,
      << <<"LPAREN">>, <<"RPAREN", "SEMICOLON">> >>,
      << <<"IDENT", "LPAREN">>, <<"RPAREN", "SEMICOLON">> >>,
      << <<"RETURN">>, <<"SEMICOLON">> >>,
      << <<"VAR", "IDENT", "ASSIGN">>, <<"SEMICOLON">> >> }

Named(c, args) == c[1] \o FuncStmtText(args) \o c[2]

ScopeSeeds == {Named(c, args) : c \in ScopeContexts, args \in FuncArgs}

InnerSeeds == {Named(c, args) : c \in InnerContexts, args \in FuncArgs}

\* lists of statements: the statements a list is made of
ListItems ==
    { <<"IDENT", "SEMICOLON">>, <<"SEMICOLON">>, <<"BREAK", "SEMICOLON">>,
      <<"RETURN", "IDENT", "SEMICOLON">> }

Lists == UNION {[1..k -> ListItems] : k \in 0..MaxList}

\* the list is the program, or the text of a block: the lexemes before and
\* after it
ListContexts ==
    { << <<>>, <<>> >>,
      << <<"LBRACE">>, <<"RBRACE">> >>,
      << <<"IDENT", "SEMICOLON", "LBRACE">>, <<"RBRACE", "SEMICOLON">> >>,
      << <<"LBRACE", "LBRACE">>, <<"RBRACE", "RBRACE">> >>,
      << <<"WHILE", "IDENT", "LBRACE">>, <<"RBRACE">> >>,
      << <<"FUNCTION", "IDENT", "LPAREN", "RPAREN", "LBRACE">>, <<"RBRACE">> >> }

ListSeeds == {c[1] \o Flatten(l) \o c[2] : c \in ListContexts, l \in Lists}

\* for and foreach loops: their headers
ForHeads ==
    { <<"FOR">> \o init \o <<"SEMICOLON">> \o cond \o <<"SEMICOLON">> \o incr :
        init \in {<<"IDENT">>, <<"IDENT", "ASSIGN", "INT">>},
        cond \in {<<"IDENT">>, <<"IDENT", "LESS", "IDENT">>},
        incr \in {<<"IDENT">>, <<"IDENT", "INCR">>} }

ForeachHeads ==
    { <<"FOREACH", "IDENT", "AS", "IDENT", "IN">> \o arr :
        arr \in {<<"IDENT">>, <<"IDENT", "DOT", "IDENT">>} }

\* the loops nested at most depth deep: the body is a block of no statement,
\* of one expression statement or of one loop
RECURSIVE LoopTexts(_)
LoopTexts(depth) ==
    LET inner == IF depth = 0 THEN {} ELSE LoopTexts(depth - 1)
        bodies == {<<>>, <<"IDENT", "SEMICOLON">>} \cup inner
    IN  {h \o <<"LBRACE">> \o b \o <<"RBRACE">> :
            h \in ForHeads \cup ForeachHeads, b \in bodies}

LoopSeeds == LoopTexts(MaxNest)

\* source texts of several lines, with malformed lexemes and with tokens
\* after their last statement
TextAlphabet ==
    {"NL", "LEXERR", "IDENT", "SEMICOLON", "RBRACE", "RPAREN", "VAR"}

\* the source texts one parser object is given one after the other: texts
\* that parse, of one line and of several, and texts that fail at their
\* first lexeme, in the middle and at their end, with and without a payload
\* in the current token
ReuseTexts ==
    { <<>>, <<"NL">>, <<"LEXERR">>, <<"NL", "NL", "LEXERR">>,
      <<"IDENT", "SEMICOLON">>, <<"NL", "IDENT", "SEMICOLON", "NL">>,
      <<"IDENT", "PLUS", "INT", "SEMICOLON", "SEMICOLON">>,
      <<"VAR", "IDENT", "ASSIGN", "STR", "SEMICOLON">>,
      <<"IDENT">>, <<"BREAK">>, <<"RETURN", "IDENT", "STR">>,
      <<"IDENT", "SEMICOLON", "RBRACE">>, <<"NL", "IDENT", "NL", "STR">>,
      <<"WHILE", "IDENT", "LBRACE", "RBRACE">> }

\* lists separated by commas: the entries with a comma between them
RECURSIVE Join(_)
Join(items) ==
    IF items = <<>> THEN <<>>
    ELSE IF Len(items) = 1 THEN items[1]
    ELSE items[1] \o <<"COMMA">> \o Join(Tail(items))

\* function f(a1, ..., an) { } with 0 to MaxArgs arguments
DeclListSeeds ==
    { <<"FUNCTION", "IDENT", "LPAREN">> \o Join([i \in 1..n |-> <<"IDENT">>])
        \o <<"RPAREN", "LBRACE", "RBRACE">> : n \in 0..MaxArgs }

\* var v1, ..., vn; each with or without an initializer
VarEntries ==
    { <<"IDENT">>, <<"IDENT", "ASSIGN", "INT">>,
      <<"IDENT", "ASSIGN", "IDENT", "PLUS", "IDENT">> }

VarListSeeds ==
    UNION {{<<"VAR">> \o Join(es) \o <<"SEMICOLON">> :
               es \in [1..n -> VarEntries]} : n \in 1..MaxArgs}

\* f(e1, ..., en); with 0 to MaxArgs arguments
CallEntries == {<<"IDENT">>, <<"INT">>, <<"IDENT", "PLUS", "IDENT">>}

CallListSeeds ==
    UNION {{<<"IDENT", "LPAREN">> \o Join(es) \o <<"RPAREN", "SEMICOLON">> :
               es \in [1..n -> CallEntries]} : n \in 0..MaxArgs}

\* statements whose nodes carry the payload of a token: terms, the key and
\* the value of a foreach loop, declared arguments, declared variables and the
\* name of a function statement
LineTexts ==
    { <<"IDENT", "SEMICOLON">>,
      <<"INT", "PLUS", "IDENT", "SEMICOLON">>,
      <<"FOREACH", "IDENT", "AS", "IDENT", "IN", "IDENT",
        "LBRACE", "RBRACE">>,
      <<"FUNCTION", "IDENT", "LPAREN", "IDENT", "COMMA", "IDENT", "RPAREN",
        "LBRACE", "RBRACE">>,
      <<"VAR", "IDENT", "ASSIGN", "INT", "COMMA", "IDENT", "SEMICOLON">> }

\* n line breaks
Breaks(n) == [i \in 1..n |-> "NL"]

\* the texts of LineTexts on one line, and with line breaks before one of
\* their lexemes or after the last
LineSeeds ==
    UNION {{ SubSeq(s, 1, i) \o Breaks(n) \o SubSeq(s, i + 1, Len(s)) :
               i \in 0..Len(s), n \in 0..MaxBreaks } : s \in LineTexts}

\* source texts that end, or run into a malformed lexeme, inside a block, in
\* a list of statements or after an operator
OpenAlphabet == {"LBRACE", "RBRACE", "SEMICOLON", "IDENT", "PLUS", "LEXERR"}

OpenSeeds == UNION {[1..n -> OpenAlphabet] : n \in 0..MaxOpen}

\* a fresh parser object and a first source text, of one family of sources
InitWith(seeds, alpha, extra) ==
    /\ src \in seeds
    /\ alphabet = alpha
    /\ limit = Len(src) + extra
    /\ p \in {spn_parser_new(b) : b \in BOOLEAN}
    /\ tree = NULL
    /\ phase = "fresh"

InitStmt == InitWith({<<>>}, StmtAlphabet, MaxStmtLen)

InitDecl ==
    \/ InitWith(FuncSeeds, FuncAlphabet, MaxDeclLen)
    \/ InitWith(VarSeeds, VarAlphabet, MaxDeclLen)

InitRelease == InitWith(ReleaseSeeds, ReleaseAlphabet, MaxTail)

InitPrec == InitWith(PrecSeeds, {"SEMICOLON"}, MaxEmpty)

InitAssoc == InitWith(AssocSeeds, {"SEMICOLON"}, MaxEmpty)

InitCond == InitWith(CondSeeds, {"SEMICOLON"}, MaxEmpty)

InitPostfix == InitWith(PostfixSeeds, {"SEMICOLON"}, MaxEmpty)

InitFunc == InitWith(TopSeeds \cup TermSeeds, {"SEMICOLON"}, MaxEmpty)

InitNamed == InitWith(ScopeSeeds \cup InnerSeeds, {"SEMICOLON"}, MaxEmpty)

InitList == InitWith(ListSeeds, {"SEMICOLON"}, MaxEmpty)

InitLoop == InitWith(LoopSeeds, {"SEMICOLON"}, MaxEmpty)

InitText == InitWith({<<>>}, TextAlphabet, MaxText)

InitReuse == InitWith(ReuseTexts, {}, 0)

InitArgs ==
    InitWith(DeclListSeeds \cup VarListSeeds \cup CallListSeeds,
             {"SEMICOLON"}, MaxEmpty)

InitLines == InitWith(LineSeeds, {"SEMICOLON", "NL"}, MaxEmpty)

InitOpen == InitWith(OpenSeeds, {"SEMICOLON"}, MaxEmpty)

Init ==
    \/ InitStmt \/ InitDecl \/ InitRelease
    \/ InitPrec \/ InitAssoc \/ InitCond \/ InitPostfix \/ InitFunc
    \/ InitNamed \/ InitList \/ InitLoop \/ InitText \/ InitReuse
    \/ InitArgs \/ InitLines \/ InitOpen

\* one call of spn_parser_parse on the source text
Parse ==
    /\ phase \in {"fresh", "edited"}
    /\ LET r == spn_parser_parse(p, src) IN
       /\ p' = r.p
       /\ tree' = r.ast
    /\ phase' = "parsed"
    /\ UNCHANGED <<src, alphabet, limit>>

\* the caller gives the tree it was returned back: spn_ast_free on the root
Release ==
    /\ phase = "parsed"
    /\ tree # NULL
    /\ p' = spn_ast_free(p, tree)
    /\ tree' = NULL
    /\ phase' = "released"
    /\ UNCHANGED <<src, alphabet, limit>>

\* the source text grows by one lexeme.  A parse that stopped before the end
\* of its input never looks at what follows, so only a text the parser read
\* to its end, in a call that returned, is extended.
Type ==
    /\ \/ phase = "released"
       \/ phase = "parsed" /\ tree = NULL
    /\ p.eof = 1 /\ ~p.hang
    /\ Len(src) < limit
    /\ \E t \in alphabet : src' = Append(src, t)
    /\ phase' = "edited"
    /\ UNCHANGED <<p, tree, alphabet, limit>>

\* the caller gives the parser object another source text, or the same one
\* again
Load ==
    /\ \/ phase = "released"
       \/ phase = "parsed" /\ tree = NULL
    /\ ~p.hang
    /\ src' \in ReuseTexts
    /\ phase' = "edited"
    /\ UNCHANGED <<p, tree, alphabet, limit>>

Next == Parse \/ Release \/ Type

\* a parser object that is given whole source texts, not a growing one
NextReuse == Parse \/ Release \/ Load

Spec == Init /\ [][Next]_vars

SpecStmt == InitStmt /\ [][Next]_vars

SpecDecl == InitDecl /\ [][Next]_vars

SpecRelease == InitRelease /\ [][Next]_vars

SpecPrec == InitPrec /\ [][Next]_vars

SpecAssoc == InitAssoc /\ [][Next]_vars

SpecCond == InitCond /\ [][Next]_vars

SpecPostfix == InitPostfix /\ [][Next]_vars

SpecFunc == InitFunc /\ [][Next]_vars

SpecNamed == InitNamed /\ [][Next]_vars

SpecList == InitList /\ [][Next]_vars

SpecLoop == InitLoop /\ [][Next]_vars

SpecText == InitText /\ [][Next]_vars

SpecReuse == InitReuse /\ [][NextReuse]_vars

SpecArgs == InitArgs /\ [][Next]_vars

SpecLines == InitLines /\ [][Next]_vars

SpecOpen == InitOpen /\ [][Next]_vars

\* a call of spn_parser_parse has returned
Returned == phase = "parsed" /\ ~p.hang

\* the payloads the lexer has produced in this call
Lexed == {i \in 1..Len(src) : i < p.pos /\ src[i] \in {"IDENT", "STR"}}

\* how often x occurs in the sequence s
Count(s, x) == Cardinality({i \in 1..Len(s) : s[i] = x})

-----------------------------------------------------------------------------
(* C1 *)

\* C1: a parse that returns gives either a tree, with the lexer at the end of
\* the input and the error flag clear, or null with the error flag set
C1_TreeOrError ==
    Returned =>
        \/ tree # NULL /\ p.eof = 1 /\ p.error = 0
        \/ tree = NULL /\ p.error = 1

-----------------------------------------------------------------------------
(* C2 *)

\* C2: when a parse returns, the AST nodes it allocated and did not free are
\* exactly the nodes of the tree it returns (none when it returns null)
C2_NoNodeLeak ==
    Returned => p.nalloc - p.nfree = NodeCount(tree)

-----------------------------------------------------------------------------
(* C3 *)

\* C3: when a parse fails with a diagnostic while the current token holds a
\* payload, that payload has been released
C3_CurrentPayloadReleased ==
    (Returned /\ tree = NULL /\ p.error = 1 /\ p.curtok.val.t = "STRING")
        => p.rel[p.curtok.val.v] >= 1

-----------------------------------------------------------------------------
(* C4 *)

\* the owners of payload i at rest: the releases it has had and the places
\* of the returned tree that hold it
Holders(i) == p.rel[i] + Count(Payloads(tree), i)

-----------------------------------------------------------------------------
(* C5 *)

\* C5: one call writes at most one diagnostic, and the message it keeps is
\* the first one
C5_OneDiagnostic ==
    Returned =>
        /\ p.ndiag <= 1
        /\ p.ndiag = 1 => p.errmsg.msg = p.sink[1].msg

-----------------------------------------------------------------------------
(* The trees the grammar prescribes *)

\* a node of the first line
Node(kind, l, r, nm) ==
    [node |-> kind, line |-> 1, left |-> l, right |-> r, name |-> nm,
     value |-> NoVal]

\* the identifier lexed at position i
Id(i) == Node("IDENT", NULL, NULL, i)

Un(kind, a) == Node(kind, a, NULL, 0)

Bin(kind, a, b) == Node(kind, a, b, 0)

\* the first statement of a program tree
RECURSIVE Leftmost(_)
Leftmost(t) ==
    IF t.left # NULL /\ t.left.node = "COMPOUND" THEN Leftmost(t.left)
    ELSE t.left

Stmt1 == IF tree = NULL THEN NULL ELSE Leftmost(tree)

\* the precedence table: the level of each binary operator, the node kind of
\* each operator
OpLevel ==
    [ASSIGN |-> 1, PLUSEQ |-> 1, MINUSEQ |-> 1, MULEQ |-> 1, DIVEQ |-> 1,
     MODEQ |-> 1, ANDEQ |-> 1, OREQ |-> 1, XOREQ |-> 1, SHLEQ |-> 1,
     SHREQ |-> 1, DOTDOTEQ |-> 1, DOTDOT |-> 2, LOGOR |-> 4, LOGAND |-> 5,
     EQUAL |-> 6, NOTEQ |-> 6, LESS |-> 6, GREATER |-> 6, LEQ |-> 6,
     GEQ |-> 6, BITOR |-> 7, XOR |-> 8, BITAND |-> 9, SHL |-> 10, SHR |-> 10,
     PLUS |-> 11, MINUS |-> 11, MUL |-> 12, DIV |-> 12, MOD |-> 12]

OpNode ==
    [ASSIGN |-> "ASSIGN", PLUSEQ |-> "ASSIGN_ADD", MINUSEQ |-> "ASSIGN_SUB",
     MULEQ |-> "ASSIGN_MUL", DIVEQ |-> "ASSIGN_DIV", MODEQ |-> "ASSIGN_MOD",
     ANDEQ |-> "ASSIGN_AND", OREQ |-> "ASSIGN_OR", XOREQ |-> "ASSIGN_XOR",
     SHLEQ |-> "ASSIGN_SHL", SHREQ |-> "ASSIGN_SHR",
     DOTDOTEQ |-> "ASSIGN_CONCAT", DOTDOT |-> "CONCAT", LOGOR |-> "LOGOR",
     LOGAND |-> "LOGAND", EQUAL |-> "EQUAL", NOTEQ |-> "NOTEQ",
     LESS |-> "LESS", GREATER |-> "GREATER", LEQ |-> "LEQ", GEQ |-> "GEQ",
     BITOR |-> "BITOR", XOR |-> "BITXOR", BITAND |-> "BITAND", SHL |-> "SHL",
     SHR |-> "SHR", PLUS |-> "ADD", MINUS |-> "SUB", MUL |-> "MUL",
     DIV |-> "DIV", MOD |-> "MOD"]

PreNode ==
    [PLUS |-> "UNPLUS", MINUS |-> "UNMINUS", INCR |-> "PREINCRMT",
     DECR |-> "PREDECRMT", LOGNOT |-> "LOGNOT", BITNOT |-> "BITNOT",
     HASH |-> "NTHARG", SIZEOF |-> "SIZEOF", TYPEOF |-> "TYPEOF"]

\* what the postfix operators of s from position i on make of the
\* expression e
RECURSIVE PostTree(_, _, _)
PostTree(s, i, e) ==
    IF i > Len(s) THEN e
    ELSE CASE s[i] = "INCR" -> PostTree(s, i + 1, Un("POSTINCRMT", e))
           [] s[i] = "DECR" -> PostTree(s, i + 1, Un("POSTDECRMT", e))
           [] s[i] = "LPAREN" /\ i < Len(s) /\ s[i + 1] = "RPAREN" ->
                PostTree(s, i + 2, Bin("FUNCCALL", e, NULL))
           [] s[i] = "LPAREN" /\ i + 1 < Len(s) /\ s[i + 1] = "IDENT" ->
                PostTree(s, i + 3,
                         Bin("FUNCCALL", e, Bin("CALLARGS", NULL, Id(i + 1))))
           [] s[i] = "LBRACKET" /\ i + 1 < Len(s) ->
                PostTree(s, i + 3, Bin("ARRSUB", e, Id(i + 1)))
           [] s[i] \in {"DOT", "ARROW"} /\ i < Len(s) ->
                PostTree(s, i + 2, Bin("MEMBEROF", e, Id(i + 1)))
           [] OTHER -> e

-----------------------------------------------------------------------------
(* C6 *)

\* the source text starts with the lexemes s
StartsWith(s) == Len(src) >= Len(s) /\ SubSeq(src, 1, Len(s)) = s

\* the source text starts with a statement of the given form
IsPair ==
    /\ Len(src) >= 6
    /\ src[2] \in DOMAIN OpLevel /\ src[4] \in DOMAIN OpLevel
    /\ StartsWith(Pair(src[2], src[4]))

IsPrefixBinary ==
    /\ Len(src) >= 5
    /\ src[1] \in DOMAIN PreNode /\ src[3] \in DOMAIN OpLevel
    /\ StartsWith(PrefixBinary(src[1], src[3]))

IsPrefixPostfix ==
    /\ Len(src) >= 4
    /\ src[1] \in DOMAIN PreNode
    /\ \E post \in PostfixItems : StartsWith(PrefixPostfix(src[1], post))

\* the postfix operators of a statement pre a post;
PostOf ==
    CHOOSE post \in PostfixItems : StartsWith(PrefixPostfix(src[1], post))

\* C6: of two binary operators of different levels the one of the looser
\* level is the root, whichever comes first; a prefix operator takes its
\* operand before any binary operator does and after every postfix operator
C6_Precedence ==
    Returned =>
        /\ (IsPair /\ OpLevel[src[2]] < OpLevel[src[4]]) =>
              Stmt1 = Bin(OpNode[src[2]], Id(1),
                          Bin(OpNode[src[4]], Id(3), Id(5)))
        /\ (IsPair /\ OpLevel[src[2]] > OpLevel[src[4]]) =>
              Stmt1 = Bin(OpNode[src[4]],
                          Bin(OpNode[src[2]], Id(1), Id(3)), Id(5))
        /\ IsPrefixBinary =>
              Stmt1 = Bin(OpNode[src[3]], Un(PreNode[src[1]], Id(2)), Id(4))
        /\ IsPrefixPostfix =>
              Stmt1 = Un(PreNode[src[1]],
                         PostTree(SubSeq(src, 1, Len(PostOf) + 2), 3, Id(2)))

\* a + b * c; was parsed, with the product below the sum
C6_Witness ==
    /\ Returned
    /\ src = Pair("PLUS", "MUL")
    /\ Stmt1.node = "ADD" /\ Stmt1.right.node = "MUL"

-----------------------------------------------------------------------------
(* C7 *)

\* the first statement of the source text, its semicolon included
RECURSIVE FirstSemi(_, _)
FirstSemi(s, i) ==
    IF i > Len(s) THEN 0
    ELSE IF s[i] = "SEMICOLON" THEN i ELSE FirstSemi(s, i + 1)

Body == SubSeq(src, 1, FirstSemi(src, 1))

\* the operators of a statement a o1 b o2 c ... ;
ChainOps(b) == [i \in 1..((Len(b) - 2) \div 2) |-> b[2 * i]]

\* the operators of a statement pre1 pre2 ... a;
PrefixOps(b) == SubSeq(b, 1, Len(b) - 2)

\* op1(a, op2(b, ...)) from operator i on
RECURSIVE RightTree(_, _)
RightTree(ops, i) ==
    IF i > Len(ops) THEN Id(2 * i - 1)
    ELSE Bin(OpNode[ops[i]], Id(2 * i - 1), RightTree(ops, i + 1))

\* opk(...(op1(a, b), ...), z) of the first k operators
RECURSIVE LeftTree(_, _)
LeftTree(ops, k) ==
    IF k = 0 THEN Id(1)
    ELSE Bin(OpNode[ops[k]], LeftTree(ops, k - 1), Id(2 * k + 1))

\* pre1(pre2(...(a))) from operator i on
RECURSIVE PreTree(_, _)
PreTree(ops, i) ==
    IF i > Len(ops) THEN Id(i)
    ELSE Un(PreNode[ops[i]], PreTree(ops, i + 1))

\* the statement is a chain of two or more operators of one level
IsChain(b) ==
    /\ Len(b) >= 6 /\ Len(b) % 2 = 0
    /\ \A i \in 1..Len(ChainOps(b)) : b[2 * i] \in DOMAIN OpLevel
    /\ b = Chain(ChainOps(b))
    /\ \A i \in 1..Len(ChainOps(b)) : OpLevel[b[2 * i]] = OpLevel[b[2]]

IsPrefixChain(b) ==
    /\ Len(b) >= 4
    /\ \A i \in 1..(Len(b) - 2) : b[i] \in DOMAIN PreNode
    /\ b = PrefixChain(PrefixOps(b))

\* C7: a chain of assignment operators nests to the right, a chain of
\* operators of any other level nests to the left, whatever its length, and
\* a sequence of prefix operators nests with the first operator outermost
C7_Associativity ==
    Returned =>
        /\ (IsChain(Body) /\ OpLevel[Body[2]] = 1) =>
              Stmt1 = RightTree(ChainOps(Body), 1)
        /\ (IsChain(Body) /\ OpLevel[Body[2]] > 1) =>
              Stmt1 = LeftTree(ChainOps(Body), Len(ChainOps(Body)))
        /\ IsPrefixChain(Body) =>
              Stmt1 = PreTree(PrefixOps(Body), 1)

\* a = b += c = d; was parsed, with the first assignment as the root, and
\* an empty statement after it
C7_Witness ==
    /\ Returned
    /\ src = Chain(<<"ASSIGN", "PLUSEQ", "ASSIGN">>) \o <<"SEMICOLON">>
    /\ Stmt1.node = "ASSIGN" /\ Stmt1.right.node = "ASSIGN_ADD"
    /\ Stmt1.right.right.node = "ASSIGN"

-----------------------------------------------------------------------------
(* C8 *)

\* the conditional expression c ? t : f
Cond(c, t, f) == Bin("CONDEXPR", c, Bin("BRANCHES", t, f))

IsTrueOp ==
    Len(src) >= 8 /\ src[4] \in DOMAIN OpLevel /\ StartsWith(TrueOp(src[4]))

IsFalseOp ==
    Len(src) >= 8 /\ src[6] \in DOMAIN OpLevel /\ StartsWith(FalseOp(src[6]))

IsNoColon ==
    Len(src) >= 5 /\ src[4] \in NoColonToks /\ StartsWith(NoColon(src[4]))

\* C8: a conditional in the false branch of a conditional is its child; any
\* binary operator, an assignment too, between ? and : belongs to the true
\* branch; an assignment or concat operator after the false branch takes the
\* whole conditional as its left operand, an operator of a tighter level
\* belongs to the false branch; and with no colon after the true branch the
\* parse fails with the condition and the true branch freed
C8_Conditional ==
    Returned =>
        /\ StartsWith(NestedCond) =>
              Stmt1 = Cond(Id(1), Id(3), Cond(Id(5), Id(7), Id(9)))
        /\ IsTrueOp =>
              Stmt1 = Cond(Id(1), Bin(OpNode[src[4]], Id(3), Id(5)), Id(7))
        /\ (IsFalseOp /\ OpLevel[src[6]] < 3) =>
              Stmt1 = Bin(OpNode[src[6]], Cond(Id(1), Id(3), Id(5)), Id(7))
        /\ (IsFalseOp /\ OpLevel[src[6]] > 3) =>
              Stmt1 = Cond(Id(1), Id(3), Bin(OpNode[src[6]], Id(5), Id(7)))
        /\ IsNoColon =>
              /\ tree = NULL /\ p.error = 1
              /\ p.errmsg.msg = "expected `:' in conditional expression"
              /\ p.nalloc = 2 /\ p.nfree = 2
              /\ p.rel[1] = 1 /\ p.rel[3] = 1

\* a ? b : c = d; was parsed, with the conditional below the assignment
C8_Witness ==
    /\ Returned
    /\ src = FalseOp("ASSIGN")
    /\ Stmt1.node = "ASSIGN" /\ Stmt1.left.node = "CONDEXPR"

-----------------------------------------------------------------------------
(* C9 *)

\* f(x)[i].m;
CallSubMember ==
    <<"IDENT", "LPAREN", "IDENT", "RPAREN", "LBRACKET", "IDENT", "RBRACKET",
      "DOT", "IDENT", "SEMICOLON">>

\* how many postfix operators follow the term of the statement s
PostCount(s) ==
    Cardinality({i \in 2..Len(s) :
        s[i] \in {"INCR", "DECR", "LPAREN", "LBRACKET", "DOT", "ARROW"}})

\* how deep the tree t is nested along its left children
RECURSIVE LeftDepth(_)
LeftDepth(t) == IF t = NULL \/ t.left = NULL THEN 0 ELSE 1 + LeftDepth(t.left)

\* C9: every postfix operator of a chain wraps the expression built so far
\* as its left child, so that k operators give a tree nested k deep to the
\* left; . and -> both give MemberOf with an Ident as right child; and
\* f(x)[i].m is MemberOf(ArrSub(FuncCall(f, CallArgs(x)), i), Ident(m))
C9_PostfixChain ==
    (Returned /\ Body \in PostfixSeeds) =>
        /\ Stmt1 = PostTree(SubSeq(Body, 1, Len(Body) - 1), 2, Id(1))
        /\ LeftDepth(Stmt1) = PostCount(Body)
        /\ Body = CallSubMember =>
              Stmt1 = Bin("MEMBEROF",
                          Bin("ARRSUB",
                              Bin("FUNCCALL", Id(1),
                                  Bin("CALLARGS", NULL, Id(3))),
                              Id(6)),
                          Id(9))
        /\ Body[Len(Body) - 2] \in {"DOT", "ARROW"} =>
              /\ Stmt1.node = "MEMBEROF"
              /\ Stmt1.right = Id(Len(Body) - 1)

\* f(x)[i].m; was parsed, with the member access as the root
C9_Witness ==
    /\ Returned
    /\ src = CallSubMember
    /\ Stmt1.node = "MEMBEROF" /\ Stmt1.left.node = "ARRSUB"
    /\ Stmt1.left.left.node = "FUNCCALL"

-----------------------------------------------------------------------------
(* C10 *)

\* how many function expressions, with no name, the tree t holds
RECURSIVE FuncExprs(_)
FuncExprs(t) ==
    IF t = NULL THEN 0
    ELSE (IF t.node = "FUNCEXPR" /\ t.name = 0 THEN 1 ELSE 0)
         + FuncExprs(t.left) + FuncExprs(t.right)

\* the source text starts with one of the texts of seeds
StartsIn(seeds) == \E s \in seeds : StartsWith(s)

\* the parse gave a tree with the function expression in it
Accepted == tree # NULL /\ p.error = 0 /\ FuncExprs(tree) = 1

-----------------------------------------------------------------------------
(* C11 *)

\* the statements of a program or block node t, in the order of a walk that
\* takes left before right and descends through Compound nodes only
RECURSIVE Walk(_)
Walk(t) ==
    IF t = NULL THEN <<>>
    ELSE IF t.node = "COMPOUND" THEN Walk(t.left) \o Walk(t.right)
    ELSE <<t>>

Statements(t) == IF t = NULL THEN <<>> ELSE Walk(t.left) \o Walk(t.right)

\* how many function statements the tree t holds
RECURSIVE FuncStmts(_)
FuncStmts(t) ==
    IF t = NULL THEN 0
    ELSE (IF t.node = "FUNCSTMT" THEN 1 ELSE 0)
         + FuncStmts(t.left) + FuncStmts(t.right)

\* the function statements below the statements of the program: in their
\* blocks and expressions
Nested(t) ==
    FuncStmts(t)
    - Cardinality({i \in DOMAIN Statements(t) :
                      Statements(t)[i].node = "FUNCSTMT"})

\* the context the source text was made of, and where its function name is
ContextOf(cs) ==
    CHOOSE c \in cs : \E args \in FuncArgs : StartsWith(Named(c, args))

NameAt(cs) == Len(ContextOf(cs)[1]) + 2

\* C11: function f(args) { } at program scope is a function statement named
\* f; the same text as a statement of a block, also of a block at program
\* scope, or in the place of a term is a parse error; no returned tree has a
\* function statement anywhere but among the statements of the program
C11_FuncStmtScope ==
    Returned =>
        /\ StartsIn(ScopeSeeds) =>
              /\ tree # NULL /\ p.error = 0
              /\ \E i \in DOMAIN Statements(tree) :
                    /\ Statements(tree)[i].node = "FUNCSTMT"
                    /\ Statements(tree)[i].name = NameAt(ScopeContexts)
        /\ StartsIn(InnerSeeds) => tree = NULL /\ p.error = 1
        /\ Nested(tree) = 0

\* x; function f(a) { } was parsed: the second statement of the program is
\* the function statement f
C11_Witness ==
    /\ Returned
    /\ src = Named(<< <<"IDENT", "SEMICOLON">>, <<>> >>, <<"IDENT">>)
    /\ tree.node = "PROGRAM" /\ tree.left.node = "IDENT"
    /\ tree.right.node = "FUNCSTMT" /\ tree.right.name = 4
    /\ tree.right.left.node = "DECLARGS"

-----------------------------------------------------------------------------
(* Lists of statements, read off the source text *)

\* where the statements of s[i..to] start that are in no block of s[i..to];
\* fresh: a statement starts at i
RECURSIVE StmtStarts(_, _, _, _, _)
StmtStarts(s, i, to, depth, fresh) ==
    IF i > to THEN <<>>
    ELSE LET d == depth + (CASE s[i] = "LBRACE" -> 1
                             [] s[i] = "RBRACE" -> -1
                             [] OTHER -> 0)
             ends == d = 0 /\ s[i] \in {"SEMICOLON", "RBRACE"}
         IN (IF fresh THEN <<i>> ELSE <<>>)
            \o StmtStarts(s, i + 1, to, d, ends)

\* the statements of the program
TopStarts == StmtStarts(src, 1, Len(src), 0, TRUE)

\* the kind of the statement that starts at lexeme i
KindAt(i) ==
    CASE src[i] = "IDENT"     -> "IDENT"
      [] src[i] = "SEMICOLON" -> "EMPTY"
      [] src[i] = "BREAK"     -> "BREAK"
      [] src[i] = "RETURN"    -> "RETURN"
      [] src[i] = "WHILE"     -> "WHILE"
      [] src[i] = "FUNCTION"  -> "FUNCSTMT"
      [] src[i] = "LBRACE"    ->
           IF src[i + 1] = "RBRACE" THEN "EMPTY" ELSE "BLOCK"

\* the node t is the statement that starts at lexeme i: its kind, and the
\* first payload in it
IsStmtAt(t, i) ==
    /\ t # NULL
    /\ t.node = KindAt(i)
    /\ src[i] = "IDENT" => t.name = i
    /\ src[i] = "FUNCTION" => t.name = i + 1
    /\ src[i] \in {"RETURN", "WHILE"} => t.left.name = i + 1

\* the nodes of the tree t, the root first
RECURSIVE Nodes(_)
Nodes(t) == IF t = NULL THEN <<>> ELSE <<t>> \o Nodes(t.left) \o Nodes(t.right)

KindCount(t, kinds) ==
    LET ns == Nodes(t) IN Cardinality({i \in DOMAIN ns : ns[i].node \in kinds})

\* the Program and Block nodes of the returned tree
ListNodes ==
    {Nodes(tree)[i] : i \in {j \in DOMAIN Nodes(tree) :
                                Nodes(tree)[j].node \in {"PROGRAM", "BLOCK"}}}

\* the Compound nodes below the list node t that make its list
RECURSIVE Spine(_)
Spine(t) ==
    IF t = NULL \/ t.node # "COMPOUND" THEN 0
    ELSE 1 + Spine(t.left) + Spine(t.right)

-----------------------------------------------------------------------------
(* C12 *)

\* C12: a program of n >= 1 statements has a root of kind Program and a
\* non-empty block is a node of kind Block; a list of one statement is a node
\* with the statement in left and nothing in right, a list of more is the top
\* node of the spine with no node above it; no Compound node is the root, a
\* statement, or anything else but a part of the spine of a list
C12_Flattening ==
    (Returned /\ tree # NULL /\ Len(TopStarts) >= 1) =>
        /\ tree.node = "PROGRAM"
        /\ Len(Statements(tree)) = Len(TopStarts)
        /\ Len(TopStarts) = 1 => IsStmtAt(tree.left, 1)
        /\ \A t \in ListNodes :
              /\ t.left # NULL
              /\ Len(Statements(t)) = 1 => t.right = NULL
              /\ Len(Statements(t)) >= 2 =>
                    /\ t.right # NULL
                    /\ 1 + Spine(t.left) + Spine(t.right)
                          = Len(Statements(t)) - 1
        /\ \A i \in DOMAIN Nodes(tree) :
              LET t == Nodes(tree)[i] IN
              t.node \notin {"PROGRAM", "BLOCK", "COMPOUND"} =>
                 /\ t.left # NULL => t.left.node # "COMPOUND"
                 /\ t.right # NULL => t.right.node # "COMPOUND"

\* x; { y; break; } ; was parsed: a program of three statements, the second
\* a block of two
C12_Witness ==
    /\ Returned
    /\ src = <<"IDENT", "SEMICOLON", "LBRACE", "IDENT", "SEMICOLON", "BREAK",
               "SEMICOLON", "RBRACE", "SEMICOLON">>
    /\ tree.node = "PROGRAM" /\ tree.right.node = "EMPTY"
    /\ tree.left.node = "COMPOUND" /\ tree.left.left.node = "IDENT"
    /\ tree.left.right.node = "BLOCK"
    /\ tree.left.right.left.node = "IDENT"
    /\ tree.left.right.right.node = "BREAK"

-----------------------------------------------------------------------------
(* C13 *)

\* the payload of the first identifier of the expression t: the position of
\* its lexeme in the source text
RECURSIVE FirstName(_)
FirstName(t) ==
    IF t = NULL THEN 0
    ELSE IF t.left = NULL THEN t.name
    ELSE FirstName(t.left)

\* t is a list of three ForHeader nodes linked through right whose left
\* children start at the lexemes a, b and c
IsHeader(t, a, b, c) ==
    /\ t # NULL /\ t.node = "FORHEADER"
    /\ t.right # NULL /\ t.right.node = "FORHEADER"
    /\ t.right.right # NULL /\ t.right.right.node = "FORHEADER"
    /\ t.right.right.right = NULL
    /\ t.left # NULL /\ FirstName(t.left) = a
    /\ t.right.left # NULL /\ FirstName(t.right.left) = b
    /\ t.right.right.left # NULL /\ FirstName(t.right.right.left) = c

\* the loop node t belongs to the loop whose keyword is lexeme i
IsLoopAt(t, i) ==
    /\ t.right # NULL /\ t.right.node \in {"BLOCK", "EMPTY"}
    /\ t.node = "FOR" =>
          /\ src[i] = "FOR"
          /\ IsHeader(t.left, i + 1, FirstSemi(src, i) + 1,
                      FirstSemi(src, FirstSemi(src, i) + 1) + 1)
    /\ t.node = "FOREACH" =>
          /\ src[i] = "FOREACH"
          /\ IsHeader(t.left, i + 1, i + 3, i + 5)
          /\ t.left.left.node = "IDENT" /\ t.left.right.left.node = "IDENT"

\* C13: every For and Foreach node has in left a list of exactly three
\* ForHeader nodes linked through right that hold, in this order, init, cond
\* and incr, or the key, the value and the iterable, and has the body in
\* right; the tree has no other ForHeader node
C13_ForHeader ==
    (Returned /\ tree # NULL) =>
        /\ KindCount(tree, {"FOR"}) = Count(src, "FOR")
        /\ KindCount(tree, {"FOREACH"}) = Count(src, "FOREACH")
        /\ KindCount(tree, {"FORHEADER"})
              = 3 * KindCount(tree, {"FOR", "FOREACH"})
        /\ LET ns == Nodes(tree) IN
           \A k \in DOMAIN ns :
              ns[k].node \in {"FOR", "FOREACH"} =>
                  /\ ns[k].left # NULL /\ ns[k].left.left # NULL
                  /\ IsLoopAt(ns[k], FirstName(ns[k].left.left) - 1)

\* for a = 1; b < c; d++ { foreach k as v in x.y { } } was parsed
C13_Witness ==
    /\ Returned
    /\ src = <<"FOR", "IDENT", "ASSIGN", "INT", "SEMICOLON", "IDENT", "LESS",
               "IDENT", "SEMICOLON", "IDENT", "INCR", "LBRACE", "FOREACH",
               "IDENT", "AS", "IDENT", "IN", "IDENT", "DOT", "IDENT",
               "LBRACE", "RBRACE", "RBRACE">>
    /\ tree.left.node = "FOR"
    /\ tree.left.left.left.node = "ASSIGN"
    /\ tree.left.left.right.left.node = "LESS"
    /\ tree.left.left.right.right.left.node = "POSTINCRMT"
    /\ tree.left.right.node = "BLOCK"
    /\ tree.left.right.left.node = "FOREACH"
    /\ tree.left.right.left.left.right.right.left.node = "MEMBEROF"
    /\ tree.left.right.left.right.node = "EMPTY"

-----------------------------------------------------------------------------
(* C14 *)

\* the line of the lexeme the lexer stands at: one more than the line breaks
\* before it
LineAt == 1 + Cardinality({i \in 1..Len(src) : i < p.pos /\ src[i] = "NL"})

\* what a parser object that has parsed nothing before gives for the source
\* text
First == spn_parser_parse(spn_parser_new(p.eoftok), src)

\* C14: whatever one parser object has parsed before, a call gives the tree,
\* or null, and the error flag that a new parser object gives for the same
\* source text; its lines are counted from 1, and a call that gives a tree
\* ends with the error flag clear
C14_Independent ==
    Returned =>
        /\ tree = First.ast
        /\ p.error = First.p.error
        /\ p.eof = First.p.eof
        /\ p.lineno = LineAt
        /\ tree # NULL => p.error = 0

\* the second line of a text was parsed to a tree by a parser object that
\* still holds the message of a call that failed
C14_Witness ==
    /\ Returned
    /\ src = <<"NL", "IDENT", "SEMICOLON", "NL">>
    /\ tree # NULL /\ tree.left.node = "IDENT" /\ tree.left.line = 2
    /\ p.error = 0 /\ p.lineno = 3
    /\ p.errmsg.msg = "lexical error" /\ p.errmsg.line = 3

-----------------------------------------------------------------------------
(* C15 *)

\* the parse failed and wrote a diagnostic
Diagnosed == Returned /\ tree = NULL /\ p.ndiag >= 1

\* C15 as stated: the text written to the error sink and the text kept in
\* errmsg are the same, the prefix with the line, the diagnostic and a
\* newline
C15_SameText ==
    Diagnosed =>
        /\ p.sink[Len(p.sink)] = p.errmsg
        /\ p.errmsg.nl /\ p.errmsg.line = LineAt

\* C15, amended: the last text written to the error sink is the prefix with
\* the line the lexer is at, the diagnostic and a newline; errmsg keeps the
\* same prefix and diagnostic, with no newline after it
C15_SameMessage ==
    Diagnosed =>
        /\ p.sink[Len(p.sink)].msg = p.errmsg.msg
        /\ p.sink[Len(p.sink)].line = p.errmsg.line
        /\ p.sink[Len(p.sink)].nl /\ ~p.errmsg.nl
        /\ p.errmsg.line = LineAt

\* a declaration on the second line with a malformed lexeme on the third:
\* two diagnostics were written, and errmsg holds the second
C15_Witness ==
    /\ Returned /\ tree = NULL
    /\ src = <<"NL", "VAR", "NL", "LEXERR">>
    /\ p.ndiag = 2 /\ p.errmsg.line = 3
    /\ p.errmsg.msg = "expected identifier in declaration"
    /\ p.sink[1].msg = "lexical error"

-----------------------------------------------------------------------------
(* C16 *)

\* the source text is statements x; and ; followed by one token that starts
\* no statement
GarbageAfter ==
    /\ Len(src) >= 2
    /\ src[Len(src)] \in {"RBRACE", "RPAREN"}
    /\ src[Len(src) - 1] = "SEMICOLON"
    /\ \A i \in 1..(Len(src) - 1) :
          /\ src[i] \in {"IDENT", "SEMICOLON", "NL"}
          /\ src[i] = "IDENT" => src[i + 1] = "SEMICOLON"

\* C16: statements followed by tokens that form no statement, as in x; } and
\* x; ): the tree built so far is freed, null is returned, and the recorded
\* diagnostic is garbage after input
C16_GarbageAfterInput ==
    (Returned /\ GarbageAfter) =>
        /\ tree = NULL /\ p.error = 1
        /\ p.nfree = p.nalloc
        /\ p.errmsg.msg = "garbage after input"

-----------------------------------------------------------------------------
(* C17 *)

\* the lexemes of the source text that are no line breaks
Tokens == SelectSeq(src, LAMBDA t : t # "NL")

\* C17: a source text of no token, with no malformed lexeme, gives a Program
\* node with no child, name or value and leaves the error flag clear; a
\* source text whose first lexeme is malformed gives null
C17_EmptyProgram ==
    Returned =>
        /\ Tokens = <<>> =>
              /\ tree # NULL /\ tree.node = "PROGRAM"
              /\ tree.left = NULL /\ tree.right = NULL
              /\ tree.name = 0 /\ tree.value = NoVal
              /\ p.error = 0
        /\ (Tokens # <<>> /\ Tokens[1] = "LEXERR") => tree = NULL

\* a source text of two line breaks was parsed
C17_Witness ==
    /\ Returned
    /\ src = <<"NL", "NL">>
    /\ tree.node = "PROGRAM" /\ tree.left = NULL /\ tree.right = NULL
    /\ p.error = 0 /\ p.eof = 1 /\ p.lineno = 3

-----------------------------------------------------------------------------
(* C18 *)

\* the blocks of the source text with no statement, and those with some
EmptyBlocks ==
    {i \in 1..(Len(src) - 1) : src[i] = "LBRACE" /\ src[i + 1] = "RBRACE"}

FullBlocks ==
    {i \in 1..(Len(src) - 1) : src[i] = "LBRACE" /\ src[i + 1] # "RBRACE"}

\* the empty statements of the source text: a ; where a statement starts
EmptyStmts ==
    {i \in 1..Len(src) :
        /\ src[i] = "SEMICOLON"
        /\ i = 1 \/ src[i - 1] \in {"SEMICOLON", "LBRACE", "RBRACE"}}

\* C18: a block of no statement is one Empty node and never a Block node:
\* the tree has an Empty node for every { } and every empty statement, a
\* Block node for every other block, each with a left child, and the body of
\* function f() { } and of while x { } is an Empty node
C18_EmptyBlock ==
    (Returned /\ tree # NULL) =>
        /\ KindCount(tree, {"EMPTY"})
              = Cardinality(EmptyBlocks) + Cardinality(EmptyStmts)
        /\ KindCount(tree, {"BLOCK"}) = Cardinality(FullBlocks)
        /\ \A t \in ListNodes : t.node = "BLOCK" => t.left # NULL
        /\ (EmptyBlocks # {} /\ src[1] \in {"WHILE", "FUNCTION"}) =>
              /\ Leftmost(tree).node \in {"WHILE", "FUNCSTMT"}
              /\ Leftmost(tree).right.node = "EMPTY"

\* function f() { } was parsed: the body of f is an Empty node
C18_Witness ==
    /\ Returned
    /\ src = <<"FUNCTION", "IDENT", "LPAREN", "RPAREN", "LBRACE", "RBRACE">>
    /\ tree.node = "PROGRAM" /\ tree.left.node = "FUNCSTMT"
    /\ tree.left.right.node = "EMPTY"
    /\ tree.left.right.left = NULL /\ tree.left.right.right = NULL

-----------------------------------------------------------------------------
(* C19 *)

\* the list node t read as a spine that leans right: its left child, then
\* what the right links lead to
RECURSIVE RightChain(_)
RightChain(t) ==
    <<t.left>> \o (IF t.right = NULL THEN <<>>
                   ELSE IF t.right.node = "COMPOUND" THEN RightChain(t.right)
                   ELSE <<t.right>>)

\* and as a spine that leans left: what the left links lead to, then its
\* right child
RECURSIVE LeftChain(_)
LeftChain(t) ==
    (IF t.left = NULL THEN <<>>
     ELSE IF t.left.node = "COMPOUND" THEN LeftChain(t.left)
     ELSE <<t.left>>) \o <<t.right>>

\* the sequence of nodes is the statements of the program, in their order
IsProgram(stmts) ==
    /\ Len(stmts) = Len(TopStarts)
    /\ \A i \in DOMAIN stmts : IsStmtAt(stmts[i], TopStarts[i])

\* C19 as stated: the spine of a program of n >= 2 statements leans right,
\* the first statement is the left child of the top node and the others
\* follow through the right links
C19_RightLeaning ==
    (Returned /\ tree # NULL /\ Len(TopStarts) >= 2) =>
        IsProgram(RightChain(tree))

\* C19, amended: the spine of a program of n >= 2 statements leans left, the
\* last statement is the right child of the top node, the statements before
\* it are the right children of the nodes the left links lead to, and the
\* first statement is the left child of the last of these nodes
C19_LeftLeaning ==
    (Returned /\ tree # NULL /\ Len(TopStarts) >= 2) =>
        IsProgram(LeftChain(tree))

\* x; break; return y; was parsed: the top node holds the return statement
\* in right and the spine of the two statements before it in left
C19_Witness ==
    /\ Returned
    /\ src = <<"IDENT", "SEMICOLON", "BREAK", "SEMICOLON", "RETURN", "IDENT",
               "SEMICOLON">>
    /\ tree.node = "PROGRAM" /\ tree.right.node = "RETURN"
    /\ tree.left.node = "COMPOUND"
    /\ tree.left.left.node = "IDENT" /\ tree.left.right.node = "BREAK"

-----------------------------------------------------------------------------
(* C20 *)

\* the text of the innermost block of the source text: from the lexeme after
\* the last { to the lexeme before the first }
InnerFrom ==
    1 + CHOOSE i \in 1..Len(src) :
            src[i] = "LBRACE" /\ \A j \in (i + 1)..Len(src) : src[j] # "LBRACE"

InnerTo ==
    (CHOOSE i \in 1..Len(src) :
         src[i] = "RBRACE" /\ \A j \in 1..(i - 1) : src[j] # "RBRACE") - 1

HasInner == Count(src, "LBRACE") >= 1 /\ InnerFrom <= InnerTo

InnerStarts == StmtStarts(src, InnerFrom, InnerTo, 0, TRUE)

\* the Block node of the innermost block: the last one met going down
InnerBlock ==
    LET blocks == {i \in DOMAIN Nodes(tree) : Nodes(tree)[i].node = "BLOCK"}
    IN  Nodes(tree)[CHOOSE i \in blocks : \A j \in blocks : j <= i]

\* C20: the walk of a Program or Block node that takes left before right and
\* descends through Compound nodes only visits the statements of the program
\* or block, each once, in the order of the source text
C20_SourceOrder ==
    (Returned /\ tree # NULL) =>
        /\ Len(TopStarts) >= 1 => IsProgram(Statements(tree))
        /\ HasInner =>
              /\ KindCount(tree, {"BLOCK"}) >= 1
              /\ Len(Statements(InnerBlock)) = Len(InnerStarts)
              /\ \A i \in DOMAIN InnerStarts :
                    IsStmtAt(Statements(InnerBlock)[i], InnerStarts[i])

\* while x { y; break; return z; } was parsed: the walk of the body visits
\* the three statements
C20_Witness ==
    /\ Returned
    /\ src = <<"WHILE", "IDENT", "LBRACE", "IDENT", "SEMICOLON", "BREAK",
               "SEMICOLON", "RETURN", "IDENT", "SEMICOLON", "RBRACE">>
    /\ tree.left.node = "WHILE" /\ tree.left.right.node = "BLOCK"
    /\ Len(Statements(tree.left.right)) = 3
    /\ Statements(tree.left.right)[1].name = 4
    /\ Statements(tree.left.right)[2].node = "BREAK"
    /\ Statements(tree.left.right)[3].node = "RETURN"

-----------------------------------------------------------------------------
(* Lists of declarations and arguments, read off the source text *)

\* the nodes that the links through left, and through right, lead to from t
RECURSIVE LeftList(_)
LeftList(t) == IF t = NULL THEN <<>> ELSE <<t>> \o LeftList(t.left)

RECURSIVE RightList(_)
RightList(t) == IF t = NULL THEN <<>> ELSE <<t>> \o RightList(t.right)

\* where the entries of the list of the source text start: after var, after
\* ( unless ) follows, and after each comma
EntryStarts ==
    SelectSeq([i \in 1..Len(src) |-> i],
              LAMBDA i : /\ i > 1
                         /\ src[i - 1] \in {"VAR", "LPAREN", "COMMA"}
                         /\ src[i] # "RPAREN")

\* the position of the first lexeme of the expression t: the payload of its
\* first identifier or literal
RECURSIVE FirstLexeme(_)
FirstLexeme(t) ==
    IF t.left # NULL THEN FirstLexeme(t.left)
    ELSE IF t.node = "IDENT" THEN t.name
    ELSE t.value.v

\* the nodes are the declarations of the source text, in their order, each
\* with the name of its entry
IsDeclList(nodes, kind) ==
    /\ Len(nodes) = Len(EntryStarts)
    /\ \A i \in DOMAIN nodes :
          nodes[i].node = kind /\ nodes[i].name = EntryStarts[i]

\* each VarDecl node holds in left the initializer of its entry, if any
HasInits(nodes) ==
    \A i \in DOMAIN nodes :
       IF src[EntryStarts[i] + 1] = "ASSIGN"
       THEN nodes[i].left # NULL
            /\ FirstLexeme(nodes[i].left) = EntryStarts[i] + 2
       ELSE nodes[i].left = NULL

\* a function statement, or a variable declaration, was parsed to a tree
FuncParsed == Returned /\ tree # NULL /\ src[1] = "FUNCTION"

VarParsed == Returned /\ tree # NULL /\ src[1] = "VAR"

-----------------------------------------------------------------------------
(* C21 *)

\* C21 as stated: the arguments a function declares are DeclArgs nodes linked
\* through right, in source order, from the left child of the FuncStmt node,
\* none with a left child, and the variables of a declaration are VarDecl
\* nodes linked through right, each with its initializer in left
C21_RightLinked ==
    /\ FuncParsed =>
          /\ Leftmost(tree).node = "FUNCSTMT"
          /\ IsDeclList(RightList(Leftmost(tree).left), "DECLARGS")
          /\ \A i \in DOMAIN RightList(Leftmost(tree).left) :
                RightList(Leftmost(tree).left)[i].left = NULL
    /\ VarParsed =>
          /\ IsDeclList(RightList(Leftmost(tree)), "VARDECL")
          /\ HasInits(RightList(Leftmost(tree)))

\* C21, amended: the arguments a function declares are DeclArgs nodes linked
\* through left, in source order, from the left child of the FuncStmt node,
\* none with a right child; the variables of a declaration are VarDecl nodes
\* linked through right, each with its initializer in left
C21_DeclLists ==
    /\ FuncParsed =>
          /\ Leftmost(tree).node = "FUNCSTMT"
          /\ IsDeclList(LeftList(Leftmost(tree).left), "DECLARGS")
          /\ \A i \in DOMAIN LeftList(Leftmost(tree).left) :
                LeftList(Leftmost(tree).left)[i].right = NULL
    /\ VarParsed =>
          /\ IsDeclList(RightList(Leftmost(tree)), "VARDECL")
          /\ HasInits(RightList(Leftmost(tree)))

\* function f(a, b, c) { } was parsed: three DeclArgs nodes, a first
C21_Witness ==
    /\ FuncParsed
    /\ src = <<"FUNCTION", "IDENT", "LPAREN", "IDENT", "COMMA", "IDENT",
               "COMMA", "IDENT", "RPAREN", "LBRACE", "RBRACE">>
    /\ tree.left.node = "FUNCSTMT" /\ tree.left.left.node = "DECLARGS"
    /\ tree.left.left.name = 4 /\ tree.left.left.left.name = 6
    /\ tree.left.left.left.left.name = 8
    /\ tree.left.left.left.left.left = NULL

-----------------------------------------------------------------------------
(* C22 *)

\* a call f(e1, ..., en); was parsed to a tree
CallParsed ==
    /\ Returned /\ tree # NULL
    /\ Len(src) >= 2 /\ src[1] = "IDENT" /\ src[2] = "LPAREN"

\* C22: the arguments of a call are CallArgs nodes linked through left from
\* the right child of the FuncCall node, the last argument first: the node
\* reached by k links holds the argument e(n-k) in right, and the node of e1
\* has no left child; a call with no argument has no right child
C22_CallArgs ==
    CallParsed =>
        /\ Leftmost(tree).node = "FUNCCALL"
        /\ Leftmost(tree).left.node = "IDENT" /\ Leftmost(tree).left.name = 1
        /\ LET args == LeftList(Leftmost(tree).right)
               n == Len(EntryStarts)
           IN  /\ Len(args) = n
               /\ n = 0 => Leftmost(tree).right = NULL
               /\ \A k \in 0..(n - 1) :
                     /\ args[k + 1].node = "CALLARGS"
                     /\ args[k + 1].right # NULL
                     /\ args[k + 1].right.node # "CALLARGS"
                     /\ FirstLexeme(args[k + 1].right) = EntryStarts[n - k]

\* f(x, 1, y + z); was parsed: the CallArgs node of y + z is the right child
\* of the call, that of x is the last and has no left child
C22_Witness ==
    /\ CallParsed
    /\ src = <<"IDENT", "LPAREN", "IDENT", "COMMA", "INT", "COMMA", "IDENT",
               "PLUS", "IDENT", "RPAREN", "SEMICOLON">>
    /\ tree.left.node = "FUNCCALL" /\ tree.left.right.node = "CALLARGS"
    /\ tree.left.right.right.node = "ADD"
    /\ tree.left.right.left.right.node = "LITERAL"
    /\ tree.left.right.left.left.right.name = 3
    /\ tree.left.right.left.left.left = NULL


-----------------------------------------------------------------------------
(* Line attribution, read off the source text *)

\* the line of the lexeme at position i of the source text
TokenLine(i) == 1 + Cardinality({j \in 1..(i - 1) : src[j] = "NL"})

\* the node was made from the payload of one token: which one
FromToken(n) ==
    \/ n.node \in {"IDENT", "DECLARGS", "VARDECL", "FUNCSTMT"} /\ n.name # 0
    \/ n.node = "LITERAL" /\ n.value.t \in {"INT", "STRING"}

TokenOf(n) == IF n.node = "LITERAL" THEN n.value.v ELSE n.name

\* C23: every node made from the payload of one token (an Ident or Literal
\* term, the key or the value of a foreach loop, a DeclArgs entry, a VarDecl
\* entry, the name of a FuncStmt) has the line of that token as its line,
\* also when the token that follows is on a later line
C23_TokenLine ==
    Returned /\ tree # NULL =>
        LET ns == Nodes(tree) IN
        \A k \in 1..Len(ns) :
            FromToken(ns[k]) => ns[k].line = TokenLine(TokenOf(ns[k]))


-----------------------------------------------------------------------------
(* Termination *)

\* C24: spn_parser_parse terminates on every finite token stream: no
\* statement loop, operator loop or recursive call of the parser goes round
\* without consuming a token or returning null, so every call that was
\* started has returned, also on a text that ends inside an unclosed block
\* and on one on which the lexer reports an error
C24_Terminates == phase = "parsed" => ~p.hang

=============================================================================
